---- MODULE Spec2Model ----
(***************************************************************************)
(* Layer / canvas editing engine of the sprite-stacking editor:            *)
(* the layerReducer of src/hooks/useLayerManager.ts, the pointer handlers   *)
(* of src/hooks/useCanvasDrawing.ts and the hydration effect of src/App.tsx *)
(***************************************************************************)
EXTENDS Integers, Sequences, FiniteSets, Bags, TLC

\* ---------------------------------------------------------------- bounds
MaxHist == 2          \* longest history the layer-stack specification explores
MaxLayers == 2        \* most layers the layer-stack specification explores
MaxInitLayers == 2    \* largest layerCount entered in the startup modal
MaxPending == 1       \* most image decodes in flight at once
MaxNameLen == 2       \* longest layer name explored, in tokens
ScenarioPaints == 60  \* strokes counted by the sequential-paint scenario

\* ------------------------------------------------------- program constants
MAX_HISTORY_SIZE == 50
DEFAULT_BRUSH_SIZE == 1

\* ------------------------------------------------------------ value model
None == <<>>                 \* null / undefined
Some(v) == <<v>>
NoId == 0                    \* activeLayerId: null
Transparent == 0             \* rgba(0,0,0,0)
Black == 1                   \* '#000000ff'
Colors == {Transparent, Black}
Red == 2                     \* '#ff0000ff'
RedA254 == 3                 \* '#ff0000fe'
InitSizes == {<<1, 1>>}      \* canvas sizes entered in the startup modal

Max(a, b) == IF a >= b THEN a ELSE b

\* A canvas is a sequence of h rows of w pixels; pixel (x, y), 0-based,
\* is canvas[y + 1][x + 1].
createOffscreenCanvas(width, height) ==
    [y \in 1..height |-> [x \in 1..width |-> Transparent]]

CanvasH(canvas) == Len(canvas)
CanvasW(canvas) == IF Len(canvas) = 0 THEN 0 ELSE Len(canvas[1])

\* canvas.toDataURL(): the PNG encoding, width, height and the pixels in
\* row-major order.
toDataURL(canvas) ==
    LET w == CanvasW(canvas)
        h == CanvasH(canvas)
    IN  [w |-> w, h |-> h,
         data |-> [k \in 1..(w * h) |-> canvas[((k - 1) \div w) + 1][((k - 1) % w) + 1]]]

\* new canvas of width x height; img.onload: clearRect, drawImage(img, 0, 0):
\* the image is drawn unscaled at the origin and clipped to the canvas.
HydrateCanvas(url, width, height) ==
    [y \in 1..height |-> [x \in 1..width |->
        IF x <= url.w /\ y <= url.h THEN url.data[(y - 1) * url.w + x] ELSE Transparent]]

\* ctx.fillRect / ctx.clearRect of a size x size square, clipped to the canvas.
PaintRect(canvas, topLeftX, topLeftY, size, color) ==
    [y \in 1..CanvasH(canvas) |-> [x \in 1..CanvasW(canvas) |->
        IF /\ x - 1 >= topLeftX /\ x - 1 < topLeftX + size
           /\ y - 1 >= topLeftY /\ y - 1 < topLeftY + size
        THEN color ELSE canvas[y][x]]]

drawPixel(canvas, centerX, centerY, color, brushSize) ==
    LET offset == brushSize \div 2
    IN  PaintRect(canvas, centerX - offset, centerY - offset, brushSize, color)

clearPixel(canvas, centerX, centerY, brushSize) ==
    LET offset == brushSize \div 2
    IN  PaintRect(canvas, centerX - offset, centerY - offset, brushSize, Transparent)

Abs(n) == IF n < 0 THEN -n ELSE n

\* The loop of drawLine moving along one axis at a time.
RECURSIVE drawLineLoop_axisOnly(_, _, _, _, _, _, _, _, _, _, _, _, _)
drawLineLoop_axisOnly(canvas, currentX, currentY, x1, y1, dx, dy, sx, sy, err, color, erase, brushSize) ==
    LET stamped == IF erase THEN clearPixel(canvas, currentX, currentY, brushSize)
                   ELSE drawPixel(canvas, currentX, currentY, color, brushSize)
        e2 == 2 * err
        stepX == e2 > -dy
        stepY == ~stepX /\ e2 < dx
        err1 == IF stepX THEN err - dy ELSE err
        err2 == IF stepY THEN err1 + dx ELSE err1
    IN  IF currentX = x1 /\ currentY = y1 THEN stamped
        ELSE drawLineLoop_axisOnly(stamped,
                          IF stepX THEN currentX + sx ELSE currentX,
                          IF stepY THEN currentY + sy ELSE currentY,
                          x1, y1, dx, dy, sx, sy, err2, color, erase, brushSize)

\* The loop of drawLine (Bresenham); erase = TRUE stamps with clearPixel.
RECURSIVE drawLineLoop(_, _, _, _, _, _, _, _, _, _, _, _, _)
drawLineLoop(canvas, currentX, currentY, x1, y1, dx, dy, sx, sy, err, color, erase, brushSize) ==
    LET stamped == IF erase THEN clearPixel(canvas, currentX, currentY, brushSize)
                   ELSE drawPixel(canvas, currentX, currentY, color, brushSize)
        e2 == 2 * err
        stepX == e2 > -dy
        stepY == e2 < dx
        err1 == IF stepX THEN err - dy ELSE err
        err2 == IF stepY THEN err1 + dx ELSE err1
    IN  IF currentX = x1 /\ currentY = y1 THEN stamped
        ELSE drawLineLoop(stamped,
                          IF stepX THEN currentX + sx ELSE currentX,
                          IF stepY THEN currentY + sy ELSE currentY,
                          x1, y1, dx, dy, sx, sy, err2, color, erase, brushSize)

drawLine(canvas, x0, y0, x1, y1, color, erase, brushSize) ==
    LET dx == Abs(x1 - x0)
        dy == Abs(y1 - y0)
        sx == IF x0 < x1 THEN 1 ELSE -1
        sy == IF y0 < y1 THEN 1 ELSE -1
    IN  drawLineLoop(canvas, x0, y0, x1, y1, dx, dy, sx, sy, dx - dy, color, erase, brushSize)

\* The loop of drawLine again, as the sequence of centres it calls drawFunc
\* with.
RECURSIVE drawLineCentresLoop(_, _, _, _, _, _, _, _, _)
drawLineCentresLoop(currentX, currentY, x1, y1, dx, dy, sx, sy, err) ==
    LET e2 == 2 * err
        stepX == e2 > -dy
        stepY == e2 < dx
        err1 == IF stepX THEN err - dy ELSE err
        err2 == IF stepY THEN err1 + dx ELSE err1
    IN  IF currentX = x1 /\ currentY = y1 THEN << <<currentX, currentY>> >>
        ELSE << <<currentX, currentY>> >> \o
             drawLineCentresLoop(IF stepX THEN currentX + sx ELSE currentX,
                                 IF stepY THEN currentY + sy ELSE currentY,
                                 x1, y1, dx, dy, sx, sy, err2)

drawLineCentres(x0, y0, x1, y1) ==
    drawLineCentresLoop(x0, y0, x1, y1, Abs(x1 - x0), Abs(y1 - y0),
                        IF x0 < x1 THEN 1 ELSE -1, IF y0 < y1 THEN 1 ELSE -1,
                        Abs(x1 - x0) - Abs(y1 - y0))

\* getPixelFromImageData: None outside the image.
getPixelFromImageData(imageData, x, y) ==
    IF x < 0 \/ x >= CanvasW(imageData) \/ y < 0 \/ y >= CanvasH(imageData) THEN None
    ELSE Some(imageData[y + 1][x + 1])

setPixelInImageData(imageData, x, y, color) ==
    IF x < 0 \/ x >= CanvasW(imageData) \/ y < 0 \/ y >= CanvasH(imageData) THEN imageData
    ELSE [imageData EXCEPT ![y + 1][x + 1] = color]

\* parseColor(hex) with a: Math.round(a * 255), and the bytes getImageData
\* gives for a pixel: << r, g, b, a >>.
RgbaPixel(color) ==
    CASE color = Transparent -> <<0, 0, 0, 0>>
      [] color = Black -> <<0, 0, 0, 255>>
      [] color = Red -> <<255, 0, 0, 255>>
      [] color = RedA254 -> <<255, 0, 0, 254>>

\* areColorsEqual that does not compare the alpha channel.
areColorsEqual_ignoreAlpha(color1, color2) ==
    IF color1 = None \/ color2 = None THEN color1 = color2
    ELSE /\ RgbaPixel(color1[1])[1] = RgbaPixel(color2[1])[1]
         /\ RgbaPixel(color1[1])[2] = RgbaPixel(color2[1])[2]
         /\ RgbaPixel(color1[1])[3] = RgbaPixel(color2[1])[3]

areColorsEqual(color1, color2) ==
    IF color1 = None \/ color2 = None THEN color1 = color2
    ELSE /\ RgbaPixel(color1[1])[1] = RgbaPixel(color2[1])[1]
         /\ RgbaPixel(color1[1])[2] = RgbaPixel(color2[1])[2]
         /\ RgbaPixel(color1[1])[3] = RgbaPixel(color2[1])[3]
         /\ RgbaPixel(color1[1])[4] = RgbaPixel(color2[1])[4]

\* The queue loop of floodFill on the copied image data.  The result is
\* [ok |-> FALSE] when the queue guard trips ("Fill area too large."), else
\* the filled image data.
RECURSIVE floodFillLoop(_, _, _, _, _, _)
floodFillLoop(imageData, queue, targetColor, fillColor, canvasWidth, canvasHeight) ==
    IF Len(queue) = 0 THEN [ok |-> TRUE, imageData |-> imageData]
    ELSE IF Len(queue) > canvasWidth * canvasHeight * 2 THEN [ok |-> FALSE, imageData |-> imageData]
    ELSE
        LET x == queue[1][1]
            y == queue[1][2]
            rest == Tail(queue)
            currentColor == getPixelFromImageData(imageData, x, y)
            neighbors == << <<x + 1, y>>, <<x - 1, y>>, <<x, y + 1>>, <<x, y - 1>> >>
            inside == SelectSeq(neighbors, LAMBDA n :
                          n[1] >= 0 /\ n[1] < canvasWidth /\ n[2] >= 0 /\ n[2] < canvasHeight)
        IN  IF currentColor # None /\ areColorsEqual(currentColor, targetColor)
            THEN floodFillLoop(setPixelInImageData(imageData, x, y, fillColor),
                               rest \o inside, targetColor, fillColor, canvasWidth, canvasHeight)
            ELSE floodFillLoop(imageData, rest, targetColor, fillColor, canvasWidth, canvasHeight)

\* rotateCanvasContent(canvas, +90 | -90): a same-size canvas onto which the
\* source is drawn through translate(w/2, h/2), rotate, drawImage(-w/2, -h/2).
\* A destination pixel shows the source pixel under its centre; when w - h is
\* odd the centre falls on a pixel edge and tie (0 or 1) is the side sampled.
rotateCanvasContent(canvas, rotation, tie) ==
    LET w == CanvasW(canvas)
        h == CanvasH(canvas)
        odd == ((w + h) % 2) = 1
        \* twice the source coordinate sampled by destination pixel (x, y)
        sx2(x, y) == IF rotation = 90 THEN 2 * y + 1 + (w - h) ELSE (w + h) - 2 * y - 1
        sy2(x, y) == IF rotation = 90 THEN (w + h) - 2 * x - 1 ELSE 2 * x + 1 + (h - w)
        fl(v2) == IF odd THEN (v2 \div 2) - tie ELSE (v2 - 1) \div 2
        src(x, y) == getPixelFromImageData(canvas, fl(sx2(x, y)), fl(sy2(x, y)))
    IN  [y \in 1..h |-> [x \in 1..w |->
            IF src(x - 1, y - 1) = None THEN Transparent ELSE src(x - 1, y - 1)[1]]]

\* ------------------------------------------------------------- layer names
\* A name is a sequence of tokens: <<k>> is "Layer k", a trailing 0 is
\* " Copy" and a trailing <<0, n>> is " Copy n".
LayerName(k) == <<k>>
CopyName(name) == Append(name, 0)                       \* `${name} Copy`

\* newLayerName.replace(/ Copy( \d+)?$/, "")
BaseName(name) ==
    LET n == Len(name)
    IN  IF n >= 2 /\ name[n] = 0 THEN SubSeq(name, 1, n - 1)
        ELSE IF n >= 3 /\ name[n - 1] = 0 /\ name[n] >= 1 THEN SubSeq(name, 1, n - 2)
        ELSE name

\* while (layers.some(l => l.name === newLayerName)) newLayerName = `${baseName} Copy ${copyCount++}`
RECURSIVE PasteName(_, _, _, _)
PasteName(layers, newLayerName, baseName, copyCount) ==
    IF \E i \in 1..Len(layers) : layers[i].name = newLayerName
    THEN PasteName(layers, baseName \o <<0, copyCount>>, baseName, copyCount + 1)
    ELSE newLayerName

\* ------------------------------------------------------ layers and history
NewLayer(id, name, canvas) ==
    [id |-> id, name |-> name, isVisible |-> TRUE, isLocked |-> FALSE, opacity |-> 1,
     offscreenCanvas |-> Some(canvas), dataURL |-> Some(toDataURL(canvas)), rotation |-> 0]

\* A Layer without its offscreenCanvas.
LayerData(l, dataURL) ==
    [id |-> l.id, name |-> l.name, isVisible |-> l.isVisible, isLocked |-> l.isLocked,
     opacity |-> l.opacity, dataURL |-> dataURL, rotation |-> l.rotation]

\* A restored layer that loses its dataURL.
RestoredLayer_noDataURL(d) ==
    [id |-> d.id, name |-> d.name, isVisible |-> d.isVisible, isLocked |-> d.isLocked,
     opacity |-> d.opacity, offscreenCanvas |-> None, dataURL |-> None,
     rotation |-> d.rotation]

\* A LayerDataForHistory installed as a Layer awaiting hydration.
RestoredLayer(d) ==
    [id |-> d.id, name |-> d.name, isVisible |-> d.isVisible, isLocked |-> d.isLocked,
     opacity |-> d.opacity, offscreenCanvas |-> None, dataURL |-> d.dataURL,
     rotation |-> d.rotation]

MapSeq(seq, Op(_)) == [i \in 1..Len(seq) |-> Op(seq[i])]

serializeLayersForHistory(layers) ==
    MapSeq(layers, LAMBDA l :
        LayerData(l, IF l.offscreenCanvas # None THEN Some(toDataURL(l.offscreenCanvas[1]))
                     ELSE l.dataURL))

createInitialHistoryEntry(layers) == <<serializeLayersForHistory(layers)>>

initialAppState ==
    [isInitialized |-> FALSE, canvasWidth |-> 0, canvasHeight |-> 0, layers |-> <<>>,
     activeLayerId |-> NoId, selectedTool |-> "pencil", primaryColor |-> Black,
     history |-> <<>>, historyIndex |-> -1, clipboard |-> None,
     brushSize |-> DEFAULT_BRUSH_SIZE, selection |-> None, floatingSelection |-> None]

\* pushToHistory that does not evict the oldest snapshot at capacity.
pushToHistory_noEviction(currentState, newLayersSnapshot) ==
    LET cut == IF currentState.historyIndex < Len(currentState.history) - 1
               THEN SubSeq(currentState.history, 1, currentState.historyIndex + 1)
               ELSE currentState.history
    IN  [history |-> Append(cut, newLayersSnapshot),
         historyIndex |-> currentState.historyIndex + 1]

\* pushToHistory that keeps the snapshots after the cursor.
pushToHistory_keepRedo(currentState, newLayersSnapshot) ==
    LET pushed == Append(currentState.history, newLayersSnapshot)
        idx == currentState.historyIndex + 1
    IN  IF Len(pushed) > MAX_HISTORY_SIZE
        THEN [history |-> Tail(pushed), historyIndex |-> idx - 1]
        ELSE [history |-> pushed, historyIndex |-> idx]

\* historyIndex is the 0-based index of JavaScript; history[i] of the source
\* is s.history[i + 1] here.
pushToHistory(currentState, newLayersSnapshot) ==
    LET cut == IF currentState.historyIndex < Len(currentState.history) - 1
               THEN SubSeq(currentState.history, 1, currentState.historyIndex + 1)
               ELSE currentState.history
        pushed == Append(cut, newLayersSnapshot)
        idx == currentState.historyIndex + 1
    IN  IF Len(pushed) > MAX_HISTORY_SIZE
        THEN [history |-> Tail(pushed), historyIndex |-> idx - 1]
        ELSE [history |-> pushed, historyIndex |-> idx]

WithHistory(s, historyUpdate) ==
    [s EXCEPT !.history = historyUpdate.history, !.historyIndex = historyUpdate.historyIndex]

IndexOfId(layers, id) ==           \* findIndex, 1-based; 0 when absent
    IF \E i \in 1..Len(layers) : layers[i].id = id
    THEN CHOOSE i \in 1..Len(layers) :
             layers[i].id = id /\ \A j \in 1..(i - 1) : layers[j].id # id
    ELSE 0

HasLayer(layers, id) == IndexOfId(layers, id) # 0
FirstId(layers) == IF Len(layers) > 0 THEN layers[1].id ELSE NoId
FilterOutId(layers, id) == SelectSeq(layers, LAMBDA l : l.id # id)

\* ----------------------------------------------------- layerReducer cases
SHOW_NEW_PROJECT_MODAL(s) == initialAppState

\* ids: the uuidv4() of each created layer, in creation order.
INIT_PROJECT(width, height, layerCount, ids) ==
    LET reversedInitialLayers ==
            [k \in 1..layerCount |->
                NewLayer(ids[layerCount - k + 1], LayerName(layerCount - k + 1),
                         createOffscreenCanvas(width, height))]
    IN  [initialAppState EXCEPT
            !.isInitialized = TRUE,
            !.canvasWidth = width,
            !.canvasHeight = height,
            !.layers = reversedInitialLayers,
            !.activeLayerId = FirstId(reversedInitialLayers),
            !.history = createInitialHistoryEntry(reversedInitialLayers),
            !.historyIndex = 0]

\* handleSaveProject: the project file of a state.  A field is Some(value),
\* or None when the file does not carry it (absent, or null).
ProjectFileFields ==
    {"canvasWidth", "canvasHeight", "layers", "activeLayerId", "selectedTool",
     "primaryColor", "history", "historyIndex", "clipboard", "brushSize"}

handleSaveProject(s) ==
    [canvasWidth |-> Some(s.canvasWidth),
     canvasHeight |-> Some(s.canvasHeight),
     layers |-> Some(serializeLayersForHistory(s.layers)),
     activeLayerId |-> IF s.activeLayerId = NoId THEN None ELSE Some(s.activeLayerId),
     selectedTool |-> Some(s.selectedTool),
     primaryColor |-> Some(s.primaryColor),
     history |-> Some(s.history),
     historyIndex |-> Some(s.historyIndex),
     clipboard |-> s.clipboard,
     brushSize |-> Some(s.brushSize)]

\* A project file from which the fields in missing have been removed.
WithoutFields(file, missing) ==
    [f \in ProjectFileFields |-> IF f \in missing THEN None ELSE file[f]]

\* debouncedSaveState: what App keeps in localStorage, the project file
\* without the tool and the brush size.
debouncedSaveState(s) == WithoutFields(handleSaveProject(s), {"selectedTool", "brushSize"})

OrElse(opt, default) == IF opt = None THEN default ELSE opt[1]
Truthy(opt) == opt # None /\ opt[1] # 0

LOAD_STATE(loadedState) ==
    LET reconstructedLayers ==
            IF /\ loadedState.layers # None
               /\ Truthy(loadedState.canvasWidth) /\ Truthy(loadedState.canvasHeight)
            THEN MapSeq(loadedState.layers[1], RestoredLayer)
            ELSE <<>>
        historyFromLoad ==
            IF loadedState.history # None THEN loadedState.history[1]
            ELSE createInitialHistoryEntry(reconstructedLayers)
        historyIndexFromLoad ==
            IF loadedState.historyIndex # None THEN loadedState.historyIndex[1]
            ELSE IF Len(historyFromLoad) > 0 THEN Len(historyFromLoad) - 1 ELSE -1
    IN  [initialAppState EXCEPT
            !.selectedTool = OrElse(loadedState.selectedTool, initialAppState.selectedTool),
            !.primaryColor = OrElse(loadedState.primaryColor, initialAppState.primaryColor),
            !.layers = reconstructedLayers,
            !.isInitialized = TRUE,
            !.canvasWidth = OrElse(loadedState.canvasWidth, initialAppState.canvasWidth),
            !.canvasHeight = OrElse(loadedState.canvasHeight, initialAppState.canvasHeight),
            !.activeLayerId = OrElse(loadedState.activeLayerId, FirstId(reconstructedLayers)),
            !.history = historyFromLoad,
            !.historyIndex = historyIndexFromLoad,
            !.clipboard = loadedState.clipboard,
            !.brushSize = OrElse(loadedState.brushSize, initialAppState.brushSize),
            !.selection = None]

ADD_LAYER(s, newId) ==
    IF ~s.isInitialized THEN s
    ELSE
        LET historyUpdate == pushToHistory(s, serializeLayersForHistory(s.layers))
            newLayer == NewLayer(newId, LayerName(Len(s.layers) + 1),
                                 createOffscreenCanvas(s.canvasWidth, s.canvasHeight))
        IN  [WithHistory(s, historyUpdate) EXCEPT
                !.layers = <<newLayer>> \o s.layers,
                !.activeLayerId = newId]

\* layers[i0]?.id with the 0-based index of the source; NoId when undefined.
IdAt(layers, i0) == IF i0 >= 0 /\ i0 + 1 <= Len(layers) THEN layers[i0 + 1].id ELSE NoId

\* layersAfter[Math.max(0, deletedIndex - 1)]?.id || layersAfter[0]?.id || null
NeighbourId(layersAfter, deletedIndex) ==
    IF IdAt(layersAfter, Max(0, deletedIndex - 1)) # NoId
    THEN IdAt(layersAfter, Max(0, deletedIndex - 1))
    ELSE IdAt(layersAfter, 0)

\* DELETE_LAYER whose guard lets the last layer go.
DELETE_LAYER_lastLayer(s, id) ==
    IF Len(s.layers) < 1 THEN s
    ELSE
        LET layerIdToDelete == IF id # NoId THEN id ELSE s.activeLayerId
        IN  IF layerIdToDelete = NoId \/ ~HasLayer(s.layers, layerIdToDelete) THEN s
            ELSE
                LET historyUpdate == pushToHistory(s, serializeLayersForHistory(s.layers))
                    layersAfterDelete == FilterOutId(s.layers, layerIdToDelete)
                    deletedIndex == IndexOfId(s.layers, layerIdToDelete) - 1
                IN  [WithHistory(s, historyUpdate) EXCEPT
                        !.layers = layersAfterDelete,
                        !.activeLayerId = NeighbourId(layersAfterDelete, deletedIndex)]

\* DELETE_LAYER that makes the first remaining layer active after the active
\* layer is deleted.
DELETE_LAYER_activatesFirst(s, id) ==
    IF Len(s.layers) <= 1 THEN s
    ELSE
        LET layerIdToDelete == IF id # NoId THEN id ELSE s.activeLayerId
        IN  IF layerIdToDelete = NoId \/ ~HasLayer(s.layers, layerIdToDelete) THEN s
            ELSE
                LET historyUpdate == pushToHistory(s, serializeLayersForHistory(s.layers))
                    layersAfterDelete == FilterOutId(s.layers, layerIdToDelete)
                IN  [WithHistory(s, historyUpdate) EXCEPT
                        !.layers = layersAfterDelete,
                        !.activeLayerId = IF s.activeLayerId = layerIdToDelete
                                          THEN IdAt(layersAfterDelete, 0)
                                          ELSE s.activeLayerId]

DELETE_LAYER(s, id) ==
    IF Len(s.layers) <= 1 THEN s
    ELSE
        LET layerIdToDelete == IF id # NoId THEN id ELSE s.activeLayerId
        IN  IF layerIdToDelete = NoId \/ ~HasLayer(s.layers, layerIdToDelete) THEN s
            ELSE
                LET historyUpdate == pushToHistory(s, serializeLayersForHistory(s.layers))
                    layersAfterDelete == FilterOutId(s.layers, layerIdToDelete)
                    deletedIndex == IndexOfId(s.layers, layerIdToDelete) - 1
                    newActiveLayerId ==
                        IF s.activeLayerId = layerIdToDelete \/ Len(layersAfterDelete) = 0
                        THEN NeighbourId(layersAfterDelete, deletedIndex)
                        ELSE s.activeLayerId
                IN  [WithHistory(s, historyUpdate) EXCEPT
                        !.layers = layersAfterDelete,
                        !.activeLayerId = newActiveLayerId]

\* REORDER_LAYERS that exchanges the layers at D and N.
REORDER_LAYERS_swap(s, D, N) ==
    LET historyUpdate == pushToHistory(s, serializeLayersForHistory(s.layers))
        layers == [i \in 1..Len(s.layers) |->
                      IF i = D + 1 THEN s.layers[N + 1]
                      ELSE IF i = N + 1 THEN s.layers[D + 1] ELSE s.layers[i]]
    IN  [WithHistory(s, historyUpdate) EXCEPT !.layers = layers]

\* sourceIndex D and destinationIndex N are the 0-based indices of the source.
REORDER_LAYERS(s, D, N) ==
    LET historyUpdate == pushToHistory(s, serializeLayersForHistory(s.layers))
        removed == s.layers[D + 1]
        without == SubSeq(s.layers, 1, D) \o SubSeq(s.layers, D + 2, Len(s.layers))
        layers == SubSeq(without, 1, N) \o <<removed>> \o SubSeq(without, N + 1, Len(without))
    IN  [WithHistory(s, historyUpdate) EXCEPT !.layers = layers]

\* UPDATE_LAYER_CANVAS that records no snapshot.
UPDATE_LAYER_CANVAS_noPush(s, id, canvas, dataURL) ==
    [s EXCEPT
        !.layers = MapSeq(s.layers, LAMBDA layer :
            IF layer.id = id
            THEN [layer EXCEPT !.offscreenCanvas = Some(canvas), !.dataURL = Some(dataURL)]
            ELSE layer),
        !.selection = None,
        !.floatingSelection = None]

UPDATE_LAYER_CANVAS(s, id, canvas, dataURL) ==
    LET historyUpdate == pushToHistory(s, serializeLayersForHistory(s.layers))
    IN  [WithHistory(s, historyUpdate) EXCEPT
            !.layers = MapSeq(s.layers, LAMBDA layer :
                IF layer.id = id
                THEN [layer EXCEPT !.offscreenCanvas = Some(canvas), !.dataURL = Some(dataURL)]
                ELSE layer),
            !.selection = None,
            !.floatingSelection = None]

\* activeLayerId that is the first restored layer whatever was active.
RestoredActiveId_alwaysFirst(s, restoredLayers) == FirstId(restoredLayers)

\* activeLayerId kept when the restored layers hold it, else the first layer.
RestoredActiveId(s, restoredLayers) ==
    IF s.activeLayerId # NoId /\ HasLayer(restoredLayers, s.activeLayerId)
    THEN s.activeLayerId ELSE FirstId(restoredLayers)

\* state.history[newHistoryIndex] is undefined and .map throws.
UndoThrows(s) == s.historyIndex > 0 /\ s.historyIndex - 1 >= Len(s.history)

UNDO(s) ==
    IF s.historyIndex <= 0 THEN s
    ELSE
        LET newHistoryIndex == s.historyIndex - 1
            restoredLayers == MapSeq(s.history[newHistoryIndex + 1], RestoredLayer)
        IN  [s EXCEPT !.layers = restoredLayers,
                      !.historyIndex = newHistoryIndex,
                      !.activeLayerId = RestoredActiveId(s, restoredLayers)]

REDO(s) ==
    IF s.historyIndex >= Len(s.history) - 1 \/ s.historyIndex < 0 THEN s
    ELSE
        LET newHistoryIndex == s.historyIndex + 1
            restoredLayers == MapSeq(s.history[newHistoryIndex + 1], RestoredLayer)
        IN  [s EXCEPT !.layers = restoredLayers,
                      !.historyIndex = newHistoryIndex,
                      !.activeLayerId = RestoredActiveId(s, restoredLayers)]

INTERNAL_UPDATE_LAYER_OFFSCREEN_CANVAS(s, layerId, canvas) ==
    [s EXCEPT !.layers = MapSeq(s.layers, LAMBDA layer :
        IF layer.id = layerId THEN [layer EXCEPT !.offscreenCanvas = Some(canvas)] ELSE layer)]

ClipboardOf(layer, name) ==
    [name |-> name, isVisible |-> layer.isVisible, isLocked |-> FALSE,
     opacity |-> layer.opacity,
     dataURL |-> IF layer.offscreenCanvas # None THEN Some(toDataURL(layer.offscreenCanvas[1]))
                 ELSE layer.dataURL,
     originalId |-> layer.id, rotation |-> layer.rotation]

COPY_LAYER(s) ==
    IF s.activeLayerId = NoId \/ ~HasLayer(s.layers, s.activeLayerId) THEN s
    ELSE
        LET activeLayer == s.layers[IndexOfId(s.layers, s.activeLayerId)]
        IN  [s EXCEPT !.clipboard = Some(ClipboardOf(activeLayer, CopyName(activeLayer.name)))]

\* CUT_LAYER without the branch that keeps the last layer.
CUT_LAYER_lastLayer(s) ==
    IF s.activeLayerId = NoId \/ ~HasLayer(s.layers, s.activeLayerId) THEN s
    ELSE
        LET activeLayerToCut == s.layers[IndexOfId(s.layers, s.activeLayerId)]
            clipboardData == ClipboardOf(activeLayerToCut, activeLayerToCut.name)
            historyUpdate == pushToHistory(s, serializeLayersForHistory(s.layers))
            layersAfterCut == FilterOutId(s.layers, s.activeLayerId)
            deletedIndex == IndexOfId(s.layers, s.activeLayerId) - 1
        IN  [WithHistory(s, historyUpdate) EXCEPT
                !.layers = layersAfterCut,
                !.activeLayerId = NeighbourId(layersAfterCut, deletedIndex),
                !.clipboard = Some(clipboardData)]

CUT_LAYER(s) ==
    IF s.activeLayerId = NoId \/ ~HasLayer(s.layers, s.activeLayerId) THEN s
    ELSE
        LET activeLayerToCut == s.layers[IndexOfId(s.layers, s.activeLayerId)]
            clipboardData == ClipboardOf(activeLayerToCut, activeLayerToCut.name)
        IN  IF Len(s.layers) = 1 THEN [s EXCEPT !.clipboard = Some(clipboardData)]
            ELSE
                LET historyUpdate == pushToHistory(s, serializeLayersForHistory(s.layers))
                    layersAfterCut == FilterOutId(s.layers, s.activeLayerId)
                    deletedIndex == IndexOfId(s.layers, s.activeLayerId) - 1
                IN  [WithHistory(s, historyUpdate) EXCEPT
                        !.layers = layersAfterCut,
                        !.activeLayerId = NeighbourId(layersAfterCut, deletedIndex),
                        !.clipboard = Some(clipboardData)]

PASTE_LAYER(s, newLayerId) ==
    IF s.clipboard = None \/ ~s.isInitialized THEN s
    ELSE
        LET historyUpdate == pushToHistory(s, serializeLayersForHistory(s.layers))
            pastedLayerData == s.clipboard[1]
            newLayerName == PasteName(s.layers, pastedLayerData.name,
                                      BaseName(pastedLayerData.name), 1)
            newPastedLayer ==
                [id |-> newLayerId, name |-> newLayerName,
                 isVisible |-> pastedLayerData.isVisible, isLocked |-> FALSE,
                 opacity |-> pastedLayerData.opacity, dataURL |-> pastedLayerData.dataURL,
                 offscreenCanvas |-> None, rotation |-> pastedLayerData.rotation]
            activeIdx == IndexOfId(s.layers, s.activeLayerId) - 1
            insertAtIndex == IF s.activeLayerId # NoId /\ activeIdx # -1 THEN activeIdx ELSE 0
        IN  [WithHistory(s, historyUpdate) EXCEPT
                !.layers = SubSeq(s.layers, 1, insertAtIndex) \o <<newPastedLayer>>
                           \o SubSeq(s.layers, insertAtIndex + 1, Len(s.layers)),
                !.activeLayerId = newLayerId]

SELECT_LAYER(s, id) ==
    [s EXCEPT !.activeLayerId = id, !.selection = None, !.floatingSelection = None]

SET_LAYER_VISIBILITY(s, id, isVisible) ==
    [s EXCEPT !.layers = MapSeq(s.layers, LAMBDA layer :
        IF layer.id = id THEN [layer EXCEPT !.isVisible = isVisible] ELSE layer)]

SET_LAYER_LOCK(s, id, isLocked) ==
    [s EXCEPT !.layers = MapSeq(s.layers, LAMBDA layer :
        IF layer.id = id THEN [layer EXCEPT !.isLocked = isLocked] ELSE layer)]

SET_LAYER_OPACITY(s, id, opacity) ==
    [s EXCEPT !.layers = MapSeq(s.layers, LAMBDA layer :
        IF layer.id = id THEN [layer EXCEPT !.opacity = opacity] ELSE layer)]

SET_PRIMARY_COLOR(s, color) == [s EXCEPT !.primaryColor = color]
SET_SELECTED_TOOL(s, tool) == [s EXCEPT !.selectedTool = tool]

\* Math.max(1, Math.min(action.size, 32))
SET_BRUSH_SIZE(s, size) ==
    [s EXCEPT !.brushSize = Max(1, IF size <= 32 THEN size ELSE 32)]

\* ROTATE_LEFT (degrees = -90) and ROTATE_RIGHT (degrees = 90).
RotateActive(s, degrees, tie) ==
    IF s.activeLayerId = NoId THEN s
    ELSE
        LET historyUpdate == pushToHistory(s, serializeLayersForHistory(s.layers))
            rotatedLayers == MapSeq(s.layers, LAMBDA layer :
                IF layer.id = s.activeLayerId /\ layer.offscreenCanvas # None
                THEN LET rotatedCanvas == rotateCanvasContent(layer.offscreenCanvas[1], degrees, tie)
                     IN  [layer EXCEPT
                            !.rotation = (layer.rotation + degrees + 360) % 360,
                            !.offscreenCanvas = Some(rotatedCanvas),
                            !.dataURL = Some(toDataURL(rotatedCanvas))]
                ELSE layer)
        IN  [WithHistory(s, historyUpdate) EXCEPT !.layers = rotatedLayers]

ROTATE_LEFT(s, tie) == RotateActive(s, -90, tie)
ROTATE_RIGHT(s, tie) == RotateActive(s, 90, tie)

\* ctx.getImageData(x, y, width, height): the pixels of the rectangle,
\* transparent where it lies outside the canvas.
getImageDataRect(canvas, x, y, width, height) ==
    [j \in 1..height |-> [i \in 1..width |->
        IF getPixelFromImageData(canvas, x + i - 1, y + j - 1) = None THEN Transparent
        ELSE getPixelFromImageData(canvas, x + i - 1, y + j - 1)[1]]]

\* ctx.clearRect(x, y, width, height)
clearRect(canvas, x, y, width, height) ==
    [j \in 1..CanvasH(canvas) |-> [i \in 1..CanvasW(canvas) |->
        IF i - 1 >= x /\ i - 1 < x + width /\ j - 1 >= y /\ j - 1 < y + height
        THEN Transparent ELSE canvas[j][i]]]

\* ctx.putImageData(imageData, x, y): every pixel of the image replaces the
\* canvas pixel under it, without blending.
putImageDataAt(canvas, imageData, x, y) ==
    [j \in 1..CanvasH(canvas) |-> [i \in 1..CanvasW(canvas) |->
        IF getPixelFromImageData(imageData, i - 1 - x, j - 1 - y) = None THEN canvas[j][i]
        ELSE getPixelFromImageData(imageData, i - 1 - x, j - 1 - y)[1]]]

\* The active layer gets the canvas (drawn on in place) and its new dataURL.
WithActiveCanvas(s, activeLayer, canvas) ==
    [s EXCEPT !.layers = MapSeq(s.layers, LAMBDA l :
        IF l.id = activeLayer.id
        THEN [l EXCEPT !.offscreenCanvas = Some(canvas), !.dataURL = Some(toDataURL(canvas))]
        ELSE l)]

\* SET_SELECTION that leaves the floating selection where it is.
SET_SELECTION_keepsFloating(s, rect) == [s EXCEPT !.selection = rect]

SET_SELECTION(s, rect) == [s EXCEPT !.selection = rect, !.floatingSelection = None]

\* state.layers.find(l => l.id === state.activeLayerId)
FindActive(s) ==
    IF HasLayer(s.layers, s.activeLayerId)
    THEN Some(s.layers[IndexOfId(s.layers, s.activeLayerId)]) ELSE None

\* LIFT_SELECTION that clears the original whatever clearOriginal says.
LIFT_SELECTION_alwaysClear(s, clearOriginal) ==
    IF s.selection = None \/ s.activeLayerId = NoId \/ FindActive(s) = None THEN s
    ELSE IF FindActive(s)[1].offscreenCanvas = None THEN s
    ELSE
        LET sel == s.selection[1]
            canvas == FindActive(s)[1].offscreenCanvas[1]
            lifted == [imageData |-> getImageDataRect(canvas, sel.x, sel.y, sel.width, sel.height),
                       x |-> sel.x, y |-> sel.y,
                       initialPosition |-> [x |-> sel.x, y |-> sel.y]]
        IN  [WithActiveCanvas(WithHistory(s, pushToHistory(s, serializeLayersForHistory(s.layers))),
                              FindActive(s)[1],
                              clearRect(canvas, sel.x, sel.y, sel.width, sel.height))
                EXCEPT !.floatingSelection = Some(lifted), !.selection = None]

LIFT_SELECTION(s, clearOriginal) ==
    IF s.selection = None \/ s.activeLayerId = NoId \/ FindActive(s) = None THEN s
    ELSE IF FindActive(s)[1].offscreenCanvas = None THEN s
    ELSE
        LET sel == s.selection[1]
            canvas == FindActive(s)[1].offscreenCanvas[1]
            lifted == [imageData |-> getImageDataRect(canvas, sel.x, sel.y, sel.width, sel.height),
                       x |-> sel.x, y |-> sel.y,
                       initialPosition |-> [x |-> sel.x, y |-> sel.y]]
        IN  IF clearOriginal
            THEN [WithActiveCanvas(WithHistory(s, pushToHistory(s, serializeLayersForHistory(s.layers))),
                                   FindActive(s)[1],
                                   clearRect(canvas, sel.x, sel.y, sel.width, sel.height))
                    EXCEPT !.floatingSelection = Some(lifted), !.selection = None]
            ELSE [s EXCEPT !.floatingSelection = Some(lifted), !.selection = None]

\* STAMP_FLOATING_SELECTION that drops the floating pixels.
STAMP_FLOATING_SELECTION_dropPixels(s) ==
    IF s.floatingSelection = None \/ s.activeLayerId = NoId \/ FindActive(s) = None THEN s
    ELSE IF FindActive(s)[1].offscreenCanvas = None THEN s
    ELSE [WithActiveCanvas(WithHistory(s, pushToHistory(s, serializeLayersForHistory(s.layers))),
                           FindActive(s)[1], FindActive(s)[1].offscreenCanvas[1])
             EXCEPT !.floatingSelection = None]

\* STAMP_FLOATING_SELECTION that blends: a transparent floating pixel leaves
\* the pixel under it as it is.
STAMP_FLOATING_SELECTION_blend(s) ==
    IF s.floatingSelection = None \/ s.activeLayerId = NoId \/ FindActive(s) = None THEN s
    ELSE IF FindActive(s)[1].offscreenCanvas = None THEN s
    ELSE
        LET floating == s.floatingSelection[1]
            canvas == FindActive(s)[1].offscreenCanvas[1]
            put == putImageDataAt(canvas, floating.imageData, floating.x, floating.y)
            blended == [j \in 1..CanvasH(canvas) |-> [i \in 1..CanvasW(canvas) |->
                           IF put[j][i] = Transparent THEN canvas[j][i] ELSE put[j][i]]]
        IN  [WithActiveCanvas(WithHistory(s, pushToHistory(s, serializeLayersForHistory(s.layers))),
                              FindActive(s)[1], blended)
                EXCEPT !.floatingSelection = None]

STAMP_FLOATING_SELECTION(s) ==
    IF s.floatingSelection = None \/ s.activeLayerId = NoId \/ FindActive(s) = None THEN s
    ELSE IF FindActive(s)[1].offscreenCanvas = None THEN s
    ELSE
        LET floating == s.floatingSelection[1]
            canvas == FindActive(s)[1].offscreenCanvas[1]
        IN  [WithActiveCanvas(WithHistory(s, pushToHistory(s, serializeLayersForHistory(s.layers))),
                              FindActive(s)[1],
                              putImageDataAt(canvas, floating.imageData, floating.x, floating.y))
                EXCEPT !.floatingSelection = None]

MOVE_FLOATING_SELECTION(s, newPosition) ==
    IF s.floatingSelection = None THEN s
    ELSE [s EXCEPT !.floatingSelection =
              Some([s.floatingSelection[1] EXCEPT !.x = newPosition.x, !.y = newPosition.y])]

CLEAR_FLOATING_SELECTION(s) == [s EXCEPT !.floatingSelection = None]

\* ------------------------------------------------------------------ state
VARIABLES
    state,       \* the AppState held by the reducer
    isDrawing,   \* useCanvasDrawing: isDrawing.current
    lastPoint,   \* useCanvasDrawing: lastPoint.current (None or Some(<<x, y>>))
    pending,     \* bag of image decodes in flight, [layerId, canvas]
    crashed,     \* an exception escaped the reducer
    last,        \* the action dispatched last, whether it changed the AppState and
                 \* whether it discarded redo states
    seqPaints,   \* strokes committed back to back since INIT_PROJECT; -1 when not counted
    nUndo        \* UNDOs dispatched right after the ScenarioPaints-th stroke

vars == <<state, isDrawing, lastPoint, pending, crashed, last, seqPaints, nUndo>>

Tools == {"pencil", "eraser", "eyedropper", "fill"}
ToolButtons == {"pencil", "eraser"}      \* tool buttons pressed in the layer-stack specification

\* Toolbar: canUndo / canRedo
canUndo(s) == s.historyIndex > 0
canRedo(s) == s.historyIndex < Len(s.history) - 1 /\ s.historyIndex # -1

\* activeLayerCache.current / activeCtxCache.current, refreshed by the effect
\* on [activeLayerId, layers].
activeLayerCache(s) ==
    IF HasLayer(s.layers, s.activeLayerId)
    THEN Some(s.layers[IndexOfId(s.layers, s.activeLayerId)]) ELSE None

\* activeCtxCache that hands out a blank canvas for a layer that has none.
activeCtxCache_blankWhenMissing(s) ==
    IF activeLayerCache(s) = None THEN None
    ELSE IF activeLayerCache(s)[1].offscreenCanvas = None
    THEN Some(createOffscreenCanvas(s.canvasWidth, s.canvasHeight))
    ELSE activeLayerCache(s)[1].offscreenCanvas

activeCtxCache(s) ==
    IF activeLayerCache(s) = None THEN None ELSE activeLayerCache(s)[1].offscreenCanvas

\* The flat composite effect with every layer drawn at its own opacity.
FlatComposite_ownOpacities(s) ==
    LET activeIndex == IndexOfId(s.layers, s.activeLayerId) - 1
        visit == [k \in 1..(Len(s.layers) - activeIndex) |-> Len(s.layers) - k]
        drawn == SelectSeq(visit, LAMBDA i :
                     s.layers[i + 1].isVisible /\ s.layers[i + 1].offscreenCanvas # None)
    IN  IF s.canvasWidth <= 0 \/ s.canvasHeight <= 0 \/ activeIndex = -1 THEN <<>>
        ELSE [k \in 1..Len(drawn) |->
                 [index |-> drawn[k],
                  globalAlpha |-> s.layers[drawn[k] + 1].opacity,
                  image |-> s.layers[drawn[k] + 1].offscreenCanvas[1]]]

\* The flat composite effect of useCanvasDrawing: the drawImage calls it
\* makes, in order, each with the 0-based index of its layer, the
\* globalAlpha in force and the canvas drawn.
FlatComposite(s) ==
    LET activeIndex == IndexOfId(s.layers, s.activeLayerId) - 1
        visit == [k \in 1..(Len(s.layers) - activeIndex) |-> Len(s.layers) - k]
        drawn == SelectSeq(visit, LAMBDA i :
                     s.layers[i + 1].isVisible /\ s.layers[i + 1].offscreenCanvas # None)
    IN  IF s.canvasWidth <= 0 \/ s.canvasHeight <= 0 \/ activeIndex = -1 THEN <<>>
        ELSE [k \in 1..Len(drawn) |->
                 [index |-> drawn[k],
                  globalAlpha |-> IF drawn[k] = activeIndex
                                  THEN s.layers[drawn[k] + 1].opacity ELSE 1,
                  image |-> s.layers[drawn[k] + 1].offscreenCanvas[1]]]

\* Drawing on the active layer's canvas object in place: the AppState keeps
\* the same canvas, whose pixels have changed; dataURL is not touched.
DrawInPlace(s, canvas) ==
    [s EXCEPT !.layers = MapSeq(s.layers, LAMBDA layer :
        IF layer.id = s.activeLayerId THEN [layer EXCEPT !.offscreenCanvas = Some(canvas)]
        ELSE layer)]

\* The hydration effect of App: one decode is started for every layer that
\* has a dataURL and no canvas.
HydrationEffect(s) ==
    IF ~s.isInitialized \/ s.canvasWidth <= 0 \/ s.canvasHeight <= 0 THEN EmptyBag
    ELSE SetToBag({[layerId |-> s.layers[i].id,
                    canvas |-> HydrateCanvas(s.layers[i].dataURL[1], s.canvasWidth, s.canvasHeight)] :
                   i \in {j \in 1..Len(s.layers) :
                            s.layers[j].offscreenCanvas = None /\ s.layers[j].dataURL # None}})

\* ids in use anywhere; uuidv4() returns an id that is in use nowhere.
UsedIds ==
    {state.layers[i].id : i \in 1..Len(state.layers)}
    \cup UNION {{state.history[h][i].id : i \in 1..Len(state.history[h])} :
                h \in 1..Len(state.history)}
    \cup (IF state.clipboard = None THEN {} ELSE {state.clipboard[1].originalId})
    \cup {e.layerId : e \in BagToSet(pending)}

RECURSIVE FreshFrom(_, _, _)
FreshFrom(k, n, used) ==
    IF n = 0 THEN <<>>
    ELSE IF k \in used THEN FreshFrom(k + 1, n, used)
    ELSE <<k>> \o FreshFrom(k + 1, n - 1, used)

uuidv4(n) == FreshFrom(1, n, UsedIds)      \* n new ids

\* The bounds of a specification on the state a step leads to: history
\* length and cursor, layer count, name lengths, decodes in flight.
Within(maxHist, maxPending) ==
    /\ Len(state'.history) <= maxHist
    /\ state'.historyIndex < maxHist
    /\ Len(state'.layers) <= MaxLayers
    /\ \A i \in 1..Len(state'.layers) : Len(state'.layers[i].name) <= MaxNameLen
    /\ IF state'.clipboard = None THEN TRUE ELSE Len(state'.clipboard[1].name) <= MaxNameLen
    /\ BagCardinality(pending') <= maxPending

\* A handler ends with the AppState s2; rerun says that the layers array is
\* a new one, which re-runs the hydration effect.  A reducer case that
\* returns its argument gives no new array; replaced says whether the case
\* builds one when it does not.
FinishFrom(inFlight, act, s2, rerun, drawing, point) ==
    /\ state' = s2
    /\ pending' = IF rerun THEN inFlight (+) HydrationEffect(s2) ELSE inFlight
    /\ isDrawing' = drawing
    /\ lastPoint' = point
    /\ crashed' = FALSE
    /\ last' = [act |-> act, changed |-> s2 # state, redoCut |-> canRedo(state) /\ ~canRedo(s2)]

Finish(act, s2, replaced, drawing, point) ==
    FinishFrom(pending, act, s2, replaced /\ s2 # state, drawing, point)

\* The reducer throws: nothing is installed and the error escapes.
Throw(act) ==
    /\ crashed' = TRUE
    /\ last' = [act |-> act, changed |-> FALSE, redoCut |-> FALSE]
    /\ UNCHANGED <<state, isDrawing, lastPoint, pending>>

\* A handler that dispatches nothing to the reducer.
Idle(act) == UNCHANGED <<state, pending, crashed, last>>

CountPaint ==
    IF seqPaints >= 0 /\ seqPaints < ScenarioPaints /\ nUndo = 0
    THEN seqPaints' = seqPaints + 1 /\ nUndo' = 0
    ELSE seqPaints' = -1 /\ nUndo' = 0

CountUndo ==
    IF seqPaints = ScenarioPaints /\ nUndo < MAX_HISTORY_SIZE
    THEN seqPaints' = seqPaints /\ nUndo' = nUndo + 1
    ELSE seqPaints' = -1 /\ nUndo' = 0

Uncounted == seqPaints' = -1 /\ nUndo' = 0
SameCount == UNCHANGED <<seqPaints, nUndo>>

Init ==
    /\ state = initialAppState
    /\ isDrawing = FALSE
    /\ lastPoint = None
    /\ pending = EmptyBag
    /\ crashed = FALSE
    /\ last = [act |-> "mount", changed |-> FALSE, redoCut |-> FALSE]
    /\ seqPaints = -1
    /\ nUndo = 0

\* StartupModal.handleSubmit
DoInitProject(sizes, maxLayers) ==
    /\ ~crashed /\ ~state.isInitialized
    /\ \E size \in sizes, layerCount \in 1..maxLayers :
        Finish("INIT_PROJECT",
               INIT_PROJECT(size[1], size[2], layerCount, uuidv4(layerCount)),
               TRUE, isDrawing, lastPoint)

InitProject == DoInitProject(InitSizes, MaxInitLayers) /\ Within(MaxHist, MaxPending) /\ Uncounted

\* Toolbar.handleNewProject
NewProject ==
    /\ ~crashed /\ state.isInitialized
    /\ Finish("SHOW_NEW_PROJECT_MODAL", SHOW_NEW_PROJECT_MODAL(state), TRUE, isDrawing, lastPoint)
    /\ Uncounted

\* LayerSidebar.handleAddLayer
DoAddLayer ==
    /\ ~crashed /\ state.isInitialized
    /\ Finish("ADD_LAYER", ADD_LAYER(state, uuidv4(1)[1]), TRUE, isDrawing, lastPoint)
    /\ Uncounted

AddLayer == DoAddLayer /\ Within(MaxHist, MaxPending)

\* LayerSidebar.handleDeleteLayer: DELETE_LAYER for the active layer once the
\* confirm dialog is accepted (a dismissed dialog changes nothing); with no
\* active layer or a single layer the handler alerts and dispatches nothing.
DeleteLayer ==
    /\ ~crashed /\ state.isInitialized
    /\ IF state.activeLayerId # NoId /\ Len(state.layers) > 1
       THEN Finish("DELETE_LAYER", DELETE_LAYER(state, state.activeLayerId), TRUE,
                   isDrawing, lastPoint)
       ELSE Idle("alert") /\ UNCHANGED <<isDrawing, lastPoint>>
    /\ Within(MaxHist, MaxPending) /\ Uncounted

\* LayerSidebar.handleDragEnd
ReorderLayers ==
    /\ ~crashed /\ state.isInitialized
    /\ \E D \in 0..(Len(state.layers) - 1), N \in 0..(Len(state.layers) - 1) :
        /\ D # N
        /\ Finish("REORDER_LAYERS", REORDER_LAYERS(state, D, N), TRUE, isDrawing, lastPoint)
    /\ Within(MaxHist, MaxPending) /\ Uncounted

\* LayerItem.handleSelect
SelectLayer ==
    /\ ~crashed /\ state.isInitialized
    /\ \E i \in 1..Len(state.layers) :
        /\ state.layers[i].id # state.activeLayerId
        /\ Finish("SELECT_LAYER", SELECT_LAYER(state, state.layers[i].id), FALSE, isDrawing, lastPoint)
    /\ Uncounted

\* LayerItem.toggleVisibility of any layer in the list
ToggleVisibility ==
    /\ ~crashed /\ state.isInitialized
    /\ \E i \in 1..Len(state.layers) :
        Finish("SET_LAYER_VISIBILITY",
               SET_LAYER_VISIBILITY(state, state.layers[i].id, ~state.layers[i].isVisible),
               TRUE, isDrawing, lastPoint)
    /\ Uncounted

\* LayerItem.toggleLock of any layer in the list
ToggleLock ==
    /\ ~crashed /\ state.isInitialized
    /\ \E i \in 1..Len(state.layers) :
        Finish("SET_LAYER_LOCK",
               SET_LAYER_LOCK(state, state.layers[i].id, ~state.layers[i].isLocked),
               TRUE, isDrawing, lastPoint)
    /\ Uncounted

\* The opacity slider of LayerItem runs from 0 to 1; its two ends are the
\* values explored.
OpacityValues == {0, 1}

\* LayerItem.handleOpacityChange: the slider of any layer is moved
SetOpacity ==
    /\ ~crashed /\ state.isInitialized
    /\ \E i \in 1..Len(state.layers), opacity \in OpacityValues :
        /\ opacity # state.layers[i].opacity
        /\ Finish("SET_LAYER_OPACITY",
                  SET_LAYER_OPACITY(state, state.layers[i].id, opacity),
                  TRUE, isDrawing, lastPoint)
    /\ Uncounted

\* Toolbar.setTool
SetTool ==
    /\ ~crashed /\ state.isInitialized
    /\ \E tool \in ToolButtons :
        Finish("SET_SELECTED_TOOL", SET_SELECTED_TOOL(state, tool), FALSE, isDrawing, lastPoint)
    /\ Uncounted

\* App.handleKeyDown: ArrowLeft, Ctrl/Cmd+Z
DoUndo ==
    /\ ~crashed /\ state.isInitialized
    /\ IF UndoThrows(state) THEN Throw("UNDO")
       ELSE Finish("UNDO", UNDO(state), TRUE, isDrawing, lastPoint)
    /\ CountUndo

Undo == DoUndo /\ Within(MaxHist, MaxPending)

\* App.handleKeyDown: ArrowRight, Ctrl/Cmd+Shift+Z, Ctrl+Y
DoRedo ==
    /\ ~crashed /\ state.isInitialized
    /\ Finish("REDO", REDO(state), TRUE, isDrawing, lastPoint)
    /\ Uncounted

Redo == DoRedo /\ Within(MaxHist, MaxPending)

\* App.handleKeyDown: Ctrl/Cmd+C
CopyLayer ==
    /\ ~crashed /\ state.isInitialized
    /\ Finish("COPY_LAYER", COPY_LAYER(state), FALSE, isDrawing, lastPoint)
    /\ Within(MaxHist, MaxPending) /\ Uncounted

\* App.handleKeyDown: Ctrl/Cmd+X
CutLayer ==
    /\ ~crashed /\ state.isInitialized
    /\ Finish("CUT_LAYER", CUT_LAYER(state), Len(state.layers) # 1, isDrawing, lastPoint)
    /\ Within(MaxHist, MaxPending) /\ Uncounted

\* App.handleKeyDown: Ctrl/Cmd+V
PasteLayer ==
    /\ ~crashed /\ state.isInitialized
    /\ Finish("PASTE_LAYER", PASTE_LAYER(state, uuidv4(1)[1]), TRUE, isDrawing, lastPoint)
    /\ Within(MaxHist, MaxPending) /\ Uncounted

\* Toolbar: canRotate
canRotate(s) ==
    IF s.activeLayerId = NoId THEN FALSE
    ELSE IF activeLayerCache(s) = None THEN TRUE
    ELSE activeLayerCache(s)[1].offscreenCanvas # None

\* Toolbar.handleRotateLeft
DoRotateLeft ==
    /\ ~crashed /\ state.isInitialized /\ canRotate(state)
    /\ \E tie \in {0, 1} :
        Finish("ROTATE_LEFT", ROTATE_LEFT(state, tie), TRUE, isDrawing, lastPoint)
    /\ Uncounted

RotateLeft == DoRotateLeft /\ Within(MaxHist, MaxPending)

\* Toolbar.handleRotateRight
DoRotateRight ==
    /\ ~crashed /\ state.isInitialized /\ canRotate(state)
    /\ \E tie \in {0, 1} :
        Finish("ROTATE_RIGHT", ROTATE_RIGHT(state, tie), TRUE, isDrawing, lastPoint)
    /\ Uncounted

RotateRight == DoRotateRight /\ Within(MaxHist, MaxPending)

\* Toolbar.handleLoadProject: a project file this program saved, from which
\* any of the fields in LoadableFields may be missing.  The file is the one
\* handleSaveProject writes for the current state.
LoadableFields == {"canvasWidth", "layers", "activeLayerId", "history", "historyIndex"}

DoLoadProject(fields) ==
    /\ ~crashed /\ state.isInitialized
    /\ \E missing \in SUBSET fields :
        Finish("LOAD_STATE", LOAD_STATE(WithoutFields(handleSaveProject(state), missing)),
               TRUE, isDrawing, lastPoint)
    /\ Uncounted

\* Toolbar.handleLoadProject with a file that lacks nothing
LoadSavedProject == DoLoadProject({}) /\ Within(MaxHist, MaxPending)

\* img.onload of one decode in flight
DoHydrationComplete ==
    /\ ~crashed
    /\ \E e \in BagToSet(pending) :
        FinishFrom(pending (-) SetToBag({e}), "INTERNAL_UPDATE_LAYER_OFFSCREEN_CANVAS",
                   INTERNAL_UPDATE_LAYER_OFFSCREEN_CANVAS(state, e.layerId, e.canvas),
                   TRUE, isDrawing, lastPoint)
    /\ SameCount

HydrationComplete == DoHydrationComplete /\ Within(MaxHist, MaxPending)

\* img.onerror that clears the dataURL of the layer it could not decode.
onerror_clearsDataURL(s, layerId) ==
    [s EXCEPT !.layers = MapSeq(s.layers, LAMBDA layer :
        IF layer.id = layerId THEN [layer EXCEPT !.dataURL = None] ELSE layer)]

\* img.onerror(layerId): console.error, and nothing is dispatched.
onerror(s, layerId) == s

\* img.onerror of one decode in flight
DoHydrationError ==
    /\ ~crashed
    /\ \E e \in BagToSet(pending) :
        /\ state' = onerror(state, e.layerId)
        /\ pending' = pending (-) SetToBag({e})
        /\ last' = [act |-> "img.onerror", changed |-> state' # state, redoCut |-> FALSE]
        /\ UNCHANGED <<isDrawing, lastPoint, crashed>>
    /\ SameCount

\* The selection tool.  A finalized selection rectangle lies inside the canvas.
SelectionRects(s) ==
    {[x |-> x, y |-> y, width |-> width, height |-> height] :
        x \in 0..(s.canvasWidth - 1), y \in 0..(s.canvasHeight - 1),
        width \in 1..s.canvasWidth, height \in 1..s.canvasHeight}
    \cap {r \in [x : 0..(s.canvasWidth - 1), y : 0..(s.canvasHeight - 1),
                 width : 1..s.canvasWidth, height : 1..s.canvasHeight] :
             r.x + r.width <= s.canvasWidth /\ r.y + r.height <= s.canvasHeight}

\* setSelection(rect | null)
SetSelection ==
    /\ ~crashed /\ state.isInitialized /\ state.selectedTool = "selection"
    /\ \E rect \in {None} \cup {Some(r) : r \in SelectionRects(state)} :
        Finish("SET_SELECTION", SET_SELECTION(state, rect), FALSE, isDrawing, lastPoint)
    /\ Uncounted

\* liftSelection(clearOriginal)
LiftSelection ==
    /\ ~crashed /\ state.isInitialized /\ state.selectedTool = "selection"
    /\ \E clearOriginal \in BOOLEAN :
        Finish("LIFT_SELECTION", LIFT_SELECTION(state, clearOriginal), clearOriginal,
               isDrawing, lastPoint)
    /\ Uncounted

\* moveFloatingSelection(newPosition)
MoveFloatingSelection ==
    /\ ~crashed /\ state.isInitialized /\ state.selectedTool = "selection"
    /\ \E x \in 0..(state.canvasWidth - 1), y \in 0..(state.canvasHeight - 1) :
        Finish("MOVE_FLOATING_SELECTION", MOVE_FLOATING_SELECTION(state, [x |-> x, y |-> y]),
               FALSE, isDrawing, lastPoint)
    /\ Uncounted

\* stampFloatingSelection()
StampFloatingSelection ==
    /\ ~crashed /\ state.isInitialized /\ state.selectedTool = "selection"
    /\ Finish("STAMP_FLOATING_SELECTION", STAMP_FLOATING_SELECTION(state), TRUE,
              isDrawing, lastPoint)
    /\ Uncounted

\* ------------------------------------------------ useCanvasDrawing handlers
\* ctx.getImageData(0, 0, width, height) and ctx.putImageData(imageData, 0, 0)
getImageData(canvas, width, height) ==
    [y \in 1..height |-> [x \in 1..width |->
        IF x <= CanvasW(canvas) /\ y <= CanvasH(canvas) THEN canvas[y][x] ELSE Transparent]]

putImageData(canvas, imageData) ==
    [y \in 1..CanvasH(canvas) |-> [x \in 1..CanvasW(canvas) |->
        IF x <= CanvasW(imageData) /\ y <= CanvasH(imageData) THEN imageData[y][x]
        ELSE canvas[y][x]]]

\* The colour the eyedropper finds from layer index i (1-based) downwards:
\* the first visible, hydrated layer whose pixel is not fully transparent.
RECURSIVE eyedropperSample(_, _, _, _)
eyedropperSample(layers, i, x, y) ==
    IF i > Len(layers) THEN None
    ELSE IF /\ layers[i].isVisible /\ layers[i].offscreenCanvas # None
            /\ getPixelFromImageData(layers[i].offscreenCanvas[1], x, y) # None
            /\ getPixelFromImageData(layers[i].offscreenCanvas[1], x, y) # Some(Transparent)
         THEN getPixelFromImageData(layers[i].offscreenCanvas[1], x, y)
         ELSE eyedropperSample(layers, i + 1, x, y)

\* The queue loop of floodFill, recorded: how it ended ("done" with an empty
\* queue, "guard" when the queue guard tripped, "running" when it was still
\* going after fuel iterations), the pixels it set, in order, and the number
\* of entries it took off the queue.
RECURSIVE floodFillTrace(_, _, _, _, _, _, _)
floodFillTrace(imageData, queue, targetColor, fillColor, canvasWidth, canvasHeight, fuel) ==
    IF Len(queue) = 0 THEN [ended |-> "done", writes |-> <<>>, iterations |-> 0]
    ELSE IF Len(queue) > canvasWidth * canvasHeight * 2
    THEN [ended |-> "guard", writes |-> <<>>, iterations |-> 0]
    ELSE IF fuel = 0 THEN [ended |-> "running", writes |-> <<>>, iterations |-> 0]
    ELSE
        LET x == queue[1][1]
            y == queue[1][2]
            rest == Tail(queue)
            currentColor == getPixelFromImageData(imageData, x, y)
            neighbors == << <<x + 1, y>>, <<x - 1, y>>, <<x, y + 1>>, <<x, y - 1>> >>
            inside == SelectSeq(neighbors, LAMBDA n :
                          n[1] >= 0 /\ n[1] < canvasWidth /\ n[2] >= 0 /\ n[2] < canvasHeight)
            matches == currentColor # None /\ areColorsEqual(currentColor, targetColor)
            next == IF matches
                    THEN floodFillTrace(setPixelInImageData(imageData, x, y, fillColor),
                                        rest \o inside, targetColor, fillColor,
                                        canvasWidth, canvasHeight, fuel - 1)
                    ELSE floodFillTrace(imageData, rest, targetColor, fillColor,
                                        canvasWidth, canvasHeight, fuel - 1)
        IN  [ended |-> next.ended,
             writes |-> (IF matches THEN << <<x, y>> >> ELSE <<>>) \o next.writes,
             iterations |-> next.iterations + 1]

\* floodFill that enters the queue loop also when the seed pixel has the
\* fill colour.
floodFillRun_noSameColorReturn(s, startX, startY, fuel) ==
    LET ctx == activeCtxCache(s)
        layer == activeLayerCache(s)
        returned == [ended |-> "done", writes |-> <<>>, iterations |-> 0]
    IN  IF \/ ctx = None \/ layer = None \/ layer[1].isLocked \/ ~s.isInitialized
           \/ s.canvasWidth <= 0 \/ s.canvasHeight <= 0
        THEN returned
        ELSE
            LET imageData == getImageData(ctx[1], s.canvasWidth, s.canvasHeight)
                targetColor == getPixelFromImageData(imageData, startX, startY)
            IN  IF targetColor = None THEN returned
                ELSE floodFillTrace(imageData, << <<startX, startY>> >>, targetColor,
                                    s.primaryColor, s.canvasWidth, s.canvasHeight, fuel)

\* floodFill(startX, startY), recorded: the run of its queue loop, or no
\* iteration at all when it returns before the loop.
floodFillRun(s, startX, startY, fuel) ==
    LET ctx == activeCtxCache(s)
        layer == activeLayerCache(s)
        returned == [ended |-> "done", writes |-> <<>>, iterations |-> 0]
    IN  IF \/ ctx = None \/ layer = None \/ layer[1].isLocked \/ ~s.isInitialized
           \/ s.canvasWidth <= 0 \/ s.canvasHeight <= 0
        THEN returned
        ELSE
            LET imageData == getImageData(ctx[1], s.canvasWidth, s.canvasHeight)
                targetColor == getPixelFromImageData(imageData, startX, startY)
            IN  IF targetColor = None \/ areColorsEqual(targetColor, Some(s.primaryColor))
                THEN returned
                ELSE floodFillTrace(imageData, << <<startX, startY>> >>, targetColor,
                                    s.primaryColor, s.canvasWidth, s.canvasHeight, fuel)

\* floodFill that puts the image data back and commits when the seed pixel
\* has the fill colour.
floodFill_commitsSameColor(s, startX, startY) ==
    LET ctx == activeCtxCache(s)
        layer == activeLayerCache(s)
    IN  IF \/ ctx = None \/ layer = None \/ layer[1].isLocked \/ ~s.isInitialized
           \/ s.canvasWidth <= 0 \/ s.canvasHeight <= 0
        THEN [committed |-> FALSE, canvas |-> None]
        ELSE
            LET imageData == getImageData(ctx[1], s.canvasWidth, s.canvasHeight)
                targetColor == getPixelFromImageData(imageData, startX, startY)
            IN  IF targetColor = None THEN [committed |-> FALSE, canvas |-> ctx]
                ELSE IF areColorsEqual(targetColor, Some(s.primaryColor))
                THEN [committed |-> TRUE, canvas |-> Some(putImageData(ctx[1], imageData))]
                ELSE
                    LET filled == floodFillLoop(imageData, << <<startX, startY>> >>, targetColor,
                                                s.primaryColor, s.canvasWidth, s.canvasHeight)
                    IN  IF filled.ok
                        THEN [committed |-> TRUE, canvas |-> Some(putImageData(ctx[1], filled.imageData))]
                        ELSE [committed |-> FALSE, canvas |-> ctx]

\* floodFill(startX, startY): the canvas after the fill; committed = FALSE when
\* the fill returns before putImageData.
floodFill(s, startX, startY) ==
    LET ctx == activeCtxCache(s)
        layer == activeLayerCache(s)
    IN  IF \/ ctx = None \/ layer = None \/ layer[1].isLocked \/ ~s.isInitialized
           \/ s.canvasWidth <= 0 \/ s.canvasHeight <= 0
        THEN [committed |-> FALSE, canvas |-> None]
        ELSE
            LET imageData == getImageData(ctx[1], s.canvasWidth, s.canvasHeight)
                targetColor == getPixelFromImageData(imageData, startX, startY)
            IN  IF targetColor = None \/ areColorsEqual(targetColor, Some(s.primaryColor))
                THEN [committed |-> FALSE, canvas |-> ctx]
                ELSE
                    LET filled == floodFillLoop(imageData, << <<startX, startY>> >>, targetColor,
                                                s.primaryColor, s.canvasWidth, s.canvasHeight)
                    IN  IF filled.ok
                        THEN [committed |-> TRUE, canvas |-> Some(putImageData(ctx[1], filled.imageData))]
                        ELSE [committed |-> FALSE, canvas |-> ctx]

\* Logical coordinates a pointer event can resolve to: a cell of the canvas,
\* or None outside it.
PointerCoords ==
    {None} \cup {Some(<<x, y>>) : x \in 0..(state.canvasWidth - 1), y \in 0..(state.canvasHeight - 1)}

\* Math.floor of n / d computed in floating point through Math.cos and
\* Math.sin, whose values at multiples of 90 degrees are only close to 0, 1
\* and -1: a sum that is exactly an integer may come out just below it, and
\* short is the number of pixels (0 or 1) the floor then loses.  Any other
\* sum is at least 1 / d away from an integer and floors exactly.
FloorRounded(n, d, short) ==
    IF n % d = 0 THEN n \div d - short ELSE n \div d

\* The ways the two floors of one event can fall
Shortfalls == {0, 1} \X {0, 1}

\* getLogicalCoords before its bounds check, for a pointer at canvasX,
\* canvasY (integers, in device pixels from the canvas origin): the floor of
\* the position divided by the zoom and rotated by -rotation about the
\* canvas centre.  Lengths are counted in 1 / (2 * zoomLevel) logical pixels,
\* which keeps the centre and every product an integer.
FlooredLogical(s, zoomLevel, canvasX, canvasY, short) ==
    LET rotation == IF FindActive(s) = None THEN 0 ELSE FindActive(s)[1].rotation
        centerX == s.canvasWidth * zoomLevel
        centerY == s.canvasHeight * zoomLevel
        translatedX == 2 * canvasX - centerX
        translatedY == 2 * canvasY - centerY
        \* cos and sin of -rotation
        cos == CASE rotation = 0 -> 1 [] rotation = 90 -> 0 [] rotation = 180 -> -1
                 [] rotation = 270 -> 0
        sin == CASE rotation = 0 -> 0 [] rotation = 90 -> -1 [] rotation = 180 -> 0
                 [] rotation = 270 -> 1
        rotatedX == translatedX * cos - translatedY * sin
        rotatedY == translatedX * sin + translatedY * cos
    IN  IF rotation # 0
        THEN <<FloorRounded(rotatedX + centerX, 2 * zoomLevel, short[1]),
               FloorRounded(rotatedY + centerY, 2 * zoomLevel, short[2])>>
        ELSE <<canvasX \div zoomLevel, canvasY \div zoomLevel>>

\* getLogicalCoords that clamps a position outside the canvas to its edge.
getLogicalCoords_clamped(s, zoomLevel, canvasX, canvasY, short) ==
    LET logical == FlooredLogical(s, zoomLevel, canvasX, canvasY, short)
        clamp(v, n) == IF v < 0 THEN 0 ELSE IF v >= n THEN n - 1 ELSE v
    IN  Some(<<clamp(logical[1], s.canvasWidth), clamp(logical[2], s.canvasHeight)>>)

getLogicalCoords(s, zoomLevel, canvasX, canvasY, short) ==
    LET logical == FlooredLogical(s, zoomLevel, canvasX, canvasY, short)
    IN  IF /\ logical[1] >= 0 /\ logical[1] < s.canvasWidth
           /\ logical[2] >= 0 /\ logical[2] < s.canvasHeight
        THEN Some(logical) ELSE None

\* handlePointerDown that does not look at the lock of the active layer.
PointerDownAt_ignoresLock(coords) ==
        LET currentLayer == activeLayerCache(state)
            ctx == activeCtxCache(state)
        IN  IF coords = None \/ currentLayer = None \/ ctx = None
            THEN Idle("pointerdown") /\ UNCHANGED <<isDrawing, lastPoint>> /\ SameCount
            ELSE
                LET x == coords[1][1]
                    y == coords[1][2]
                IN  CASE state.selectedTool \in {"pencil", "eraser"} ->
                            /\ state' = DrawInPlace(state,
                                   IF state.selectedTool = "pencil"
                                   THEN drawPixel(ctx[1], x, y, state.primaryColor, state.brushSize)
                                   ELSE clearPixel(ctx[1], x, y, state.brushSize))
                            /\ isDrawing' = TRUE
                            /\ lastPoint' = coords
                            /\ UNCHANGED <<pending, crashed, last>>
                            /\ SameCount
                      [] state.selectedTool = "eyedropper" ->
                            LET color == eyedropperSample(state.layers,
                                             IndexOfId(state.layers, state.activeLayerId), x, y)
                            IN  /\ IF color = None THEN Idle("pointerdown") /\ UNCHANGED lastPoint
                                   ELSE Finish("SET_PRIMARY_COLOR", SET_PRIMARY_COLOR(state, color[1]),
                                               FALSE, FALSE, lastPoint)
                                /\ isDrawing' = FALSE
                                /\ Uncounted
                      [] state.selectedTool = "fill" ->
                            LET fill == floodFill(state, x, y)
                            IN  /\ IF fill.committed
                                   THEN Finish("UPDATE_LAYER_CANVAS",
                                               UPDATE_LAYER_CANVAS(
                                                   DrawInPlace(state, fill.canvas[1]),
                                                   currentLayer[1].id, fill.canvas[1],
                                                   toDataURL(fill.canvas[1])),
                                               TRUE, FALSE, lastPoint)
                                   ELSE Idle("pointerdown") /\ UNCHANGED lastPoint
                                /\ isDrawing' = FALSE
                                /\ Uncounted

\* handlePointerDown with the main button, once getLogicalCoords has resolved
\* the event to coords
PointerDownAt(coords) ==
        LET currentLayer == activeLayerCache(state)
            ctx == activeCtxCache(state)
        IN  IF coords = None \/ currentLayer = None \/ currentLayer[1].isLocked \/ ctx = None
            THEN Idle("pointerdown") /\ UNCHANGED <<isDrawing, lastPoint>> /\ SameCount
            ELSE
                LET x == coords[1][1]
                    y == coords[1][2]
                IN  CASE state.selectedTool \in {"pencil", "eraser"} ->
                            /\ state' = DrawInPlace(state,
                                   IF state.selectedTool = "pencil"
                                   THEN drawPixel(ctx[1], x, y, state.primaryColor, state.brushSize)
                                   ELSE clearPixel(ctx[1], x, y, state.brushSize))
                            /\ isDrawing' = TRUE
                            /\ lastPoint' = coords
                            /\ UNCHANGED <<pending, crashed, last>>
                            /\ SameCount
                      [] state.selectedTool = "eyedropper" ->
                            LET color == eyedropperSample(state.layers,
                                             IndexOfId(state.layers, state.activeLayerId), x, y)
                            IN  /\ IF color = None THEN Idle("pointerdown") /\ UNCHANGED lastPoint
                                   ELSE Finish("SET_PRIMARY_COLOR", SET_PRIMARY_COLOR(state, color[1]),
                                               FALSE, FALSE, lastPoint)
                                /\ isDrawing' = FALSE
                                /\ Uncounted
                      [] state.selectedTool = "fill" ->
                            LET fill == floodFill(state, x, y)
                            IN  /\ IF fill.committed
                                   THEN Finish("UPDATE_LAYER_CANVAS",
                                               UPDATE_LAYER_CANVAS(
                                                   DrawInPlace(state, fill.canvas[1]),
                                                   currentLayer[1].id, fill.canvas[1],
                                                   toDataURL(fill.canvas[1])),
                                               TRUE, FALSE, lastPoint)
                                   ELSE Idle("pointerdown") /\ UNCHANGED lastPoint
                                /\ isDrawing' = FALSE
                                /\ Uncounted

\* handlePointerDown with the main button
DoPointerDown ==
    /\ ~crashed /\ state.isInitialized
    /\ \E coords \in PointerCoords : PointerDownAt(coords)

PointerDown == DoPointerDown /\ Within(MaxHist, MaxPending)

\* Whole zoom levels between MIN_ZOOM and MAX_ZOOM, which the wheel reaches,
\* and the pointer positions over the displayed canvas, which is
\* canvasWidth * zoomLevel by canvasHeight * zoomLevel device pixels.
ZoomLevels == {1, 2}
DisplayedX(s, zoomLevel) == 0..(s.canvasWidth * zoomLevel - 1)
DisplayedY(s, zoomLevel) == 0..(s.canvasHeight * zoomLevel - 1)

\* handlePointerDown with the main button at a position over the displayed
\* canvas
DoPointerDownOnCanvas ==
    /\ ~crashed /\ state.isInitialized
    /\ \E zoomLevel \in ZoomLevels :
        \E canvasX \in DisplayedX(state, zoomLevel), canvasY \in DisplayedY(state, zoomLevel) :
            \E short \in Shortfalls :
                PointerDownAt(getLogicalCoords(state, zoomLevel, canvasX, canvasY, short))

\* finalizeDrawing
finalizeDrawing(act) ==
    IF isDrawing /\ state.selectedTool \in {"pencil", "eraser"}
    THEN
        LET currentLayer == activeLayerCache(state)
            ctx == activeCtxCache(state)
        IN  IF currentLayer # None /\ ctx # None
            THEN /\ Finish("UPDATE_LAYER_CANVAS",
                           UPDATE_LAYER_CANVAS(state, currentLayer[1].id, ctx[1], toDataURL(ctx[1])),
                           TRUE, FALSE, None)
                 /\ CountPaint
            ELSE /\ Idle(act) /\ isDrawing' = FALSE /\ lastPoint' = None
                 /\ Uncounted
    ELSE /\ Idle(act) /\ isDrawing' = FALSE /\ lastPoint' = None
         /\ SameCount

\* handlePointerUp with the main button
DoPointerUp == ~crashed /\ state.isInitialized /\ finalizeDrawing("pointerup")

PointerUp == DoPointerUp /\ Within(MaxHist, MaxPending)

\* handlePointerLeave
PointerLeave ==
    /\ ~crashed /\ state.isInitialized
    /\ IF isDrawing THEN finalizeDrawing("pointerleave")
       ELSE Idle("pointerleave") /\ UNCHANGED <<isDrawing, lastPoint>> /\ SameCount
    /\ Within(MaxHist, MaxPending)

\* handlePointerMove
DoPointerMove ==
    /\ ~crashed /\ state.isInitialized
    /\ \E coords \in PointerCoords :
        IF ~isDrawing \/ lastPoint = None \/ state.selectedTool \in {"fill", "eyedropper"}
        THEN Idle("pointermove") /\ UNCHANGED <<isDrawing, lastPoint>> /\ SameCount
        ELSE
            LET currentLayer == activeLayerCache(state)
                ctx == activeCtxCache(state)
            IN  IF coords = None \/ currentLayer = None \/ currentLayer[1].isLocked
                THEN IF ctx # None
                     THEN /\ Finish("UPDATE_LAYER_CANVAS",
                                    UPDATE_LAYER_CANVAS(state, currentLayer[1].id, ctx[1],
                                                        toDataURL(ctx[1])),
                                    TRUE, FALSE, None)
                          /\ CountPaint
                     ELSE /\ Idle("pointermove") /\ isDrawing' = FALSE /\ lastPoint' = None
                          /\ Uncounted
                ELSE IF ctx = None
                THEN Idle("pointermove") /\ UNCHANGED <<isDrawing, lastPoint>> /\ SameCount
                ELSE IF coords # lastPoint
                THEN /\ state' = DrawInPlace(state,
                            drawLine(ctx[1], lastPoint[1][1], lastPoint[1][2],
                                     coords[1][1], coords[1][2], state.primaryColor,
                                     state.selectedTool = "eraser", state.brushSize))
                     /\ lastPoint' = coords
                     /\ UNCHANGED <<isDrawing, pending, crashed, last>>
                     /\ SameCount
                ELSE Idle("pointermove") /\ UNCHANGED <<isDrawing, lastPoint>> /\ SameCount

PointerMove == DoPointerMove /\ Within(MaxHist, MaxPending)

\* ---------------------------------------------------------- specifications
\* The layer stack and its history: every handler that edits the stack.
Next ==
    \/ InitProject
    \/ AddLayer
    \/ DeleteLayer
    \/ ReorderLayers
    \/ SelectLayer
    \/ Undo
    \/ Redo
    \/ HydrationComplete
    \/ PointerDown
    \/ PointerMove
    \/ PointerUp
    \/ PointerLeave

Spec == Init /\ [][Next]_vars

\* Project files: a project is built, edited, saved and loaded back.
LoadProject == DoLoadProject(LoadableFields) /\ Within(MaxHist, MaxPending)

NextLoad ==
    \/ InitProject
    \/ AddLayer
    \/ Undo
    \/ Redo
    \/ HydrationComplete
    \/ LoadProject

SpecLoad == Init /\ [][NextLoad]_vars

\* The clipboard: layers are copied, cut and pasted, undone and redone, and
\* the project is saved and loaded back.
NextClip ==
    \/ InitProject
    \/ AddLayer
    \/ DeleteLayer
    \/ Undo
    \/ Redo
    \/ CopyLayer
    \/ CutLayer
    \/ PasteLayer
    \/ HydrationComplete
    \/ LoadSavedProject

SpecClip == Init /\ [][NextClip]_vars

\* The history at its capacity: strokes of the pencil on a project of one
\* layer, undone and redone by a user who lets a restored layer finish
\* decoding before the next key or pointer event.
WithinCap == Within(MAX_HISTORY_SIZE + 1, MaxPending)
Decoded == pending = EmptyBag

CapInitProject ==
    DoInitProject(InitSizes, 1) /\ WithinCap /\ seqPaints' = 0 /\ nUndo' = 0
CapPointerDown == Decoded /\ DoPointerDown /\ WithinCap
CapPointerUp == Decoded /\ DoPointerUp /\ WithinCap
CapUndo == Decoded /\ DoUndo /\ WithinCap
CapRedo == Decoded /\ DoRedo /\ WithinCap
CapHydrationComplete == DoHydrationComplete /\ WithinCap

NextCap ==
    \/ CapInitProject
    \/ CapPointerDown
    \/ CapPointerUp
    \/ CapUndo
    \/ CapRedo
    \/ CapHydrationComplete

SpecCap == Init /\ [][NextCap]_vars

\* The selection tool: a project of one layer is painted with the pencil,
\* then a rectangle is selected, lifted, moved and stamped.
MaxSelHist == 4       \* longest history the selection specification explores
SelSizes == {<<2, 1>>}
WithinSel == Within(MaxSelHist, MaxPending)

SelInitProject == DoInitProject(SelSizes, 1) /\ WithinSel /\ Uncounted
SelSetTool ==
    /\ ~crashed /\ state.isInitialized /\ ~isDrawing
    /\ \E tool \in {"pencil", "selection"} :
        Finish("SET_SELECTED_TOOL", SET_SELECTED_TOOL(state, tool), FALSE, isDrawing, lastPoint)
    /\ Uncounted
SelPointerDown == state.selectedTool = "pencil" /\ DoPointerDown /\ WithinSel
SelPointerUp == state.selectedTool = "pencil" /\ DoPointerUp /\ WithinSel
SelSetSelection == SetSelection /\ WithinSel
SelLiftSelection == LiftSelection /\ WithinSel
SelMoveFloatingSelection == MoveFloatingSelection /\ WithinSel
SelStampFloatingSelection == StampFloatingSelection /\ WithinSel

NextSel ==
    \/ SelInitProject
    \/ SelSetTool
    \/ SelPointerDown
    \/ SelPointerUp
    \/ SelSetSelection
    \/ SelLiftSelection
    \/ SelMoveFloatingSelection
    \/ SelStampFloatingSelection

SpecSel == Init /\ [][NextSel]_vars

\* The fill tool: a project of one layer is painted with the pencil and
\* filled, in colours picked in the ColorPicker.
MaxFillHist == 3      \* longest history the fill specification explores
FillSizes == {<<2, 2>>}
FillColors == {Red, RedA254}
OpaqueColors == {c \in FillColors : RgbaPixel(c)[4] = 255}
WithinFill == Within(MaxFillHist, MaxPending)

FillInitProject == DoInitProject(FillSizes, 1) /\ WithinFill /\ Uncounted
FillSetTool ==
    /\ ~crashed /\ state.isInitialized /\ ~isDrawing
    /\ \E tool \in {"pencil", "fill"} :
        Finish("SET_SELECTED_TOOL", SET_SELECTED_TOOL(state, tool), FALSE, isDrawing, lastPoint)
    /\ Uncounted
\* ColorPicker.dispatchColorUpdate
SetPrimaryColor ==
    /\ ~crashed /\ state.isInitialized /\ ~isDrawing
    /\ \E color \in FillColors :
        /\ color # state.primaryColor
        /\ Finish("SET_PRIMARY_COLOR", SET_PRIMARY_COLOR(state, color), FALSE, isDrawing, lastPoint)
    /\ Uncounted
\* A colour is picked first; the pencil is used with opaque colours, which
\* replace the pixel they cover, one press for each stroke.
FillPointerDown ==
    /\ ~isDrawing /\ state.primaryColor \in FillColors
    /\ state.selectedTool = "pencil" => state.primaryColor \in OpaqueColors
    /\ DoPointerDown /\ WithinFill
FillPointerUp == DoPointerUp /\ WithinFill

NextFill ==
    \/ FillInitProject
    \/ FillSetTool
    \/ SetPrimaryColor
    \/ FillPointerDown
    \/ FillPointerUp

SpecFill == Init /\ [][NextFill]_vars

\* Strokes: the pencil is dragged over a project of one layer, with the
\* brush sizes of the Toolbar.
MaxLineHist == 2      \* longest history the stroke specification explores
LineSizes == {<<3, 2>>}
BrushSizes == {1, 3}
WithinLine == Within(MaxLineHist, MaxPending)
LineReach == 2        \* how far outside the canvas the line endpoints explored lie

LineInitProject == DoInitProject(LineSizes, 1) /\ WithinLine /\ Uncounted
\* Toolbar.handleSetBrushSize
SetBrushSize ==
    /\ ~crashed /\ state.isInitialized /\ ~isDrawing
    /\ \E size \in BrushSizes :
        /\ size # state.brushSize
        /\ Finish("SET_BRUSH_SIZE", SET_BRUSH_SIZE(state, size), FALSE, isDrawing, lastPoint)
    /\ SameCount
\* A stroke is started while the history has room for its commit.
LinePointerDown ==
    ~isDrawing /\ Len(state.history) < MaxLineHist /\ DoPointerDown /\ WithinLine
LinePointerMove == PointerMove /\ WithinLine
LinePointerUp == DoPointerUp /\ WithinLine

NextLine ==
    \/ LineInitProject
    \/ SetBrushSize
    \/ LinePointerDown
    \/ LinePointerMove
    \/ LinePointerUp

SpecLine == Init /\ [][NextLine]_vars

\* Rotation: a project of one layer, square or not, is painted with the
\* pencil and its layer is rotated with the Toolbar buttons.
MaxRotHist == 3       \* longest history the rotation specification explores
RotSizes == {<<2, 2>>, <<3, 1>>}
WithinRot == Within(MaxRotHist, MaxPending)

RotInitProject == DoInitProject(RotSizes, 1) /\ WithinRot /\ Uncounted
RotPointerDown == ~isDrawing /\ DoPointerDown /\ WithinRot
RotPointerUp == DoPointerUp /\ WithinRot
RotRotateLeft == ~isDrawing /\ DoRotateLeft /\ WithinRot
RotRotateRight == ~isDrawing /\ DoRotateRight /\ WithinRot

NextRot ==
    \/ RotInitProject
    \/ RotPointerDown
    \/ RotPointerUp
    \/ RotRotateLeft
    \/ RotRotateRight

SpecRot == Init /\ [][NextRot]_vars

(***************************************************************************)
(* Pointer input through the zoom and the rotation of the active layer:    *)
(* presses are made at device positions over the displayed canvas, with    *)
(* every tool, on layers that are rotated in between.                      *)
(***************************************************************************)
MaxViewHist == 3      \* longest history the input-transform specification explores
ViewSizes == {<<2, 2>>}
WithinView == Within(MaxViewHist, MaxPending)

ViewInitProject == DoInitProject(ViewSizes, 1) /\ WithinView /\ Uncounted
ViewSetTool ==
    /\ ~crashed /\ state.isInitialized /\ ~isDrawing
    /\ \E tool \in Tools :
        /\ tool # state.selectedTool
        /\ Finish("SET_SELECTED_TOOL", SET_SELECTED_TOOL(state, tool), FALSE, isDrawing, lastPoint)
    /\ Uncounted
ViewPointerDown == ~isDrawing /\ DoPointerDownOnCanvas /\ WithinView
ViewPointerUp == DoPointerUp /\ WithinView
ViewRotateLeft == ~isDrawing /\ DoRotateLeft /\ WithinView
ViewRotateRight == ~isDrawing /\ DoRotateRight /\ WithinView

NextView ==
    \/ ViewInitProject
    \/ ViewSetTool
    \/ ViewPointerDown
    \/ ViewPointerUp
    \/ ViewRotateLeft
    \/ ViewRotateRight

SpecView == Init /\ [][NextView]_vars

(***************************************************************************)
(* Hydration: a project of one layer is drawn on with the pencil, the      *)
(* eraser and the fill tool and undone and redone, while the decodes the   *)
(* hydration effect starts complete, or fail, in any order.                *)
(***************************************************************************)
MaxHydHist == 3       \* longest history the hydration specification explores
MaxHydPending == 2    \* most image decodes in flight at once in the hydration specification
HydTools == {"pencil", "eraser", "fill"}
WithinHyd == Within(MaxHydHist, MaxHydPending)

HydInitProject == DoInitProject(InitSizes, 1) /\ WithinHyd /\ Uncounted
HydSetTool ==
    /\ ~crashed /\ state.isInitialized
    /\ \E tool \in HydTools :
        /\ tool # state.selectedTool
        /\ Finish("SET_SELECTED_TOOL", SET_SELECTED_TOOL(state, tool), FALSE, isDrawing, lastPoint)
    /\ Uncounted
HydPointerDown == DoPointerDown /\ WithinHyd
HydPointerMove == DoPointerMove /\ WithinHyd
HydPointerUp == DoPointerUp /\ WithinHyd
HydUndo == DoUndo /\ WithinHyd
HydRedo == DoRedo /\ WithinHyd
HydHydrationComplete == DoHydrationComplete /\ WithinHyd
HydHydrationError == DoHydrationError /\ WithinHyd

NextHyd ==
    \/ HydInitProject
    \/ HydSetTool
    \/ HydPointerDown
    \/ HydPointerMove
    \/ HydPointerUp
    \/ HydUndo
    \/ HydRedo
    \/ HydHydrationComplete
    \/ HydHydrationError

SpecHyd == Init /\ [][NextHyd]_vars

(***************************************************************************)
(* Decode failures: a project of up to two layers is drawn on, undone and  *)
(* redone while the decodes of its layers complete or fail.                *)
(***************************************************************************)
MaxErrHist == 2       \* longest history the decode-failure specification explores
MaxErrPending == 2    \* most image decodes in flight at once in the decode-failure specification
WithinErr == Within(MaxErrHist, MaxErrPending)

ErrInitProject == DoInitProject(InitSizes, 2) /\ WithinErr /\ Uncounted
ErrSelectLayer == ~isDrawing /\ SelectLayer /\ WithinErr
ErrPointerDown == ~isDrawing /\ DoPointerDown /\ WithinErr
ErrPointerUp == DoPointerUp /\ WithinErr
ErrUndo == ~isDrawing /\ DoUndo /\ WithinErr
ErrRedo == ~isDrawing /\ DoRedo /\ WithinErr
ErrHydrationComplete == DoHydrationComplete /\ WithinErr
ErrHydrationError == DoHydrationError /\ WithinErr

NextErr ==
    \/ ErrInitProject
    \/ ErrSelectLayer
    \/ ErrPointerDown
    \/ ErrPointerUp
    \/ ErrUndo
    \/ ErrRedo
    \/ ErrHydrationComplete
    \/ ErrHydrationError

SpecErr == Init /\ [][NextErr]_vars

(***************************************************************************)
(* The layer panel: layers are added, selected, hidden, shown and made     *)
(* transparent or opaque, and additions are undone, while the decodes      *)
(* complete in any order.                                                  *)
(***************************************************************************)
MaxPanelHist == 2     \* longest history the layer-panel specification explores
MaxPanelPending == 2  \* most image decodes in flight at once in the layer-panel specification
WithinPanel == Within(MaxPanelHist, MaxPanelPending)

PanelInitProject == DoInitProject(InitSizes, MaxInitLayers) /\ WithinPanel /\ Uncounted
PanelAddLayer == DoAddLayer /\ WithinPanel
PanelSelectLayer == SelectLayer /\ WithinPanel
PanelToggleVisibility == ToggleVisibility /\ WithinPanel
PanelSetOpacity == SetOpacity /\ WithinPanel
PanelUndo == DoUndo /\ WithinPanel
PanelHydrationComplete == DoHydrationComplete /\ WithinPanel

NextPanel ==
    \/ PanelInitProject
    \/ PanelAddLayer
    \/ PanelSelectLayer
    \/ PanelToggleVisibility
    \/ PanelSetOpacity
    \/ PanelUndo
    \/ PanelHydrationComplete

SpecPanel == Init /\ [][NextPanel]_vars

(***************************************************************************)
(* Locking: the one layer of a project is locked and unlocked in the layer *)
(* panel while it is drawn on with the pencil, the eraser and the fill     *)
(* tool, a stroke in progress included.                                    *)
(***************************************************************************)
MaxLockHist == 3      \* longest history the locking specification explores
MaxLockPending == 1   \* most image decodes in flight at once in the locking specification
LockSizes == {<<2, 1>>}
WithinLock == Within(MaxLockHist, MaxLockPending)

LockInitProject == DoInitProject(LockSizes, 1) /\ WithinLock /\ Uncounted
LockSetTool == ~isDrawing /\ HydSetTool
LockToggleLock == ToggleLock /\ WithinLock
LockPointerDown == DoPointerDown /\ WithinLock
LockPointerMove == DoPointerMove /\ WithinLock
LockPointerUp == DoPointerUp /\ WithinLock

NextLock ==
    \/ LockInitProject
    \/ LockSetTool
    \/ LockToggleLock
    \/ LockPointerDown
    \/ LockPointerMove
    \/ LockPointerUp

SpecLock == Init /\ [][NextLock]_vars

\* ------------------------------------------------------------------ claims
\* The pixels a layer shows: those of its canvas, or of its decoded dataURL
\* while it has no canvas.
PixelsOf(layer, width, height) ==
    IF layer.offscreenCanvas # None THEN layer.offscreenCanvas
    ELSE IF layer.dataURL # None THEN Some(HydrateCanvas(layer.dataURL[1], width, height))
    ELSE None

\* The layer stack of a state: each layer's fields and pixels, in order.
StackOf(s) ==
    MapSeq(s.layers, LAMBDA l :
        [id |-> l.id, name |-> l.name, isVisible |-> l.isVisible, isLocked |-> l.isLocked,
         opacity |-> l.opacity, rotation |-> l.rotation,
         pixels |-> PixelsOf(l, s.canvasWidth, s.canvasHeight)])

\* The canvases one pencil or eraser stamp leaves on the active layer.
StrokesOf(s) ==
    IF activeCtxCache(s) = None \/ activeLayerCache(s)[1].isLocked THEN {}
    ELSE {drawPixel(activeCtxCache(s)[1], x, y, s.primaryColor, s.brushSize) :
              x \in 0..(s.canvasWidth - 1), y \in 0..(s.canvasHeight - 1)}
         \cup {clearPixel(activeCtxCache(s)[1], x, y, s.brushSize) :
              x \in 0..(s.canvasWidth - 1), y \in 0..(s.canvasHeight - 1)}

\* The states one mutating action leads to from the current state: a stroke
\* commit, add, delete, reorder, cut, paste or rotate that changes the state.
AfterMutatingAction ==
    IF ~state.isInitialized \/ crashed THEN {}
    ELSE {s2 \in
            {ADD_LAYER(state, uuidv4(1)[1]),
             DELETE_LAYER(state, state.activeLayerId),
             CUT_LAYER(state),
             PASTE_LAYER(state, uuidv4(1)[1])}
            \cup {REORDER_LAYERS(state, D, N) :
                     D \in 0..(Len(state.layers) - 1), N \in 0..(Len(state.layers) - 1)}
            \cup (IF canRotate(state) /\ activeLayerCache(state) # None
                  THEN {ROTATE_LEFT(state, 0), ROTATE_RIGHT(state, 0)} ELSE {})
            \cup {UPDATE_LAYER_CANVAS(DrawInPlace(state, canvas), state.activeLayerId, canvas,
                                      toDataURL(canvas)) : canvas \in StrokesOf(state)} :
          StackOf(s2) # StackOf(state) \/ s2.history # state.history}

\* C1: in every reachable state, any single mutating action followed by UNDO
\* gives back the layer stack (layers and pixels) of before the action.
C1_UndoRestoresPreActionStack ==
    \A s2 \in AfterMutatingAction : StackOf(UNDO(s2)) = StackOf(state)

\* C2: in every reachable state, any single mutating action followed by UNDO
\* and then REDO gives the layer stack (layers and pixels) of right after the
\* action.
C2_RedoRestoresPostActionStack ==
    \A s2 \in AfterMutatingAction : StackOf(REDO(UNDO(s2))) = StackOf(s2)

\* The action dispatched last committed a change of the layer stack.
Committed ==
    /\ last.changed
    /\ last.act \in {"ADD_LAYER", "DELETE_LAYER", "REORDER_LAYERS", "UPDATE_LAYER_CANVAS"}

\* The cursor of s is at the last history index, canRedo is false and REDO
\* leaves s unchanged.
NoRedoLeft(s) ==
    /\ s.historyIndex = Len(s.history) - 1
    /\ ~canRedo(s)
    /\ REDO(s) = s

\* C3: committing a mutating action discards every redo state: right after
\* a commit, and after any mutating action applied where UNDOs have left redo
\* states, the cursor is at the last history index, canRedo is false and REDO
\* leaves the state unchanged.
C3_CommitDiscardsRedo ==
    /\ Committed => NoRedoLeft(state)
    /\ canRedo(state) => \A s2 \in AfterMutatingAction : NoRedoLeft(s2)

\* A mutating action was committed while redo states were available.
C3_Witness == Committed /\ last.redoCut

\* C4: whenever the history is non-empty, 0 <= historyIndex < history.length.
C4_HistoryIndexInRange ==
    Len(state.history) > 0 =>
        0 <= state.historyIndex /\ state.historyIndex < Len(state.history)

AfterScenario(n) == seqPaints = ScenarioPaints /\ nUndo = n

ClaimedUndos == ScenarioPaints - MAX_HISTORY_SIZE

\* C6 as claimed: after ScenarioPaints strokes on a fresh project the history
\* holds MAX_HISTORY_SIZE entries with the cursor at the last one; from there
\* UNDO is possible ScenarioPaints - MAX_HISTORY_SIZE times and one more UNDO
\* is a no-op.
C6_TenUndosThenNoOp ==
    /\ AfterScenario(0) =>
            /\ Len(state.history) = MAX_HISTORY_SIZE
            /\ state.historyIndex = Len(state.history) - 1
    /\ \A n \in 0..(ClaimedUndos - 1) : AfterScenario(n) => UNDO(state) # state
    /\ AfterScenario(ClaimedUndos) => UNDO(state) = state

\* C6 amended: after ScenarioPaints strokes on a fresh project the history
\* holds MAX_HISTORY_SIZE entries with the cursor at the last one; from there
\* UNDO is possible MAX_HISTORY_SIZE - 1 times and one more UNDO is a no-op.
C6_UndoDownToOldestEntry ==
    /\ AfterScenario(0) =>
            /\ Len(state.history) = MAX_HISTORY_SIZE
            /\ state.historyIndex = Len(state.history) - 1
    /\ \A n \in 0..(MAX_HISTORY_SIZE - 2) : AfterScenario(n) => UNDO(state) # state
    /\ AfterScenario(MAX_HISTORY_SIZE - 1) => UNDO(state) = state

\* The UNDO that follows MAX_HISTORY_SIZE - 1 UNDOs has been dispatched and
\* changed nothing.
C6_Witness ==
    /\ AfterScenario(MAX_HISTORY_SIZE)
    /\ last.act = "UNDO" /\ ~last.changed

\* C7: once a project is initialised the layer list holds at least one layer.
C7_AtLeastOneLayer == state.isInitialized => Len(state.layers) >= 1

\* C8: activeLayerId is null or the id of a layer in the layer list.
C8_ActiveLayerInList ==
    state.activeLayerId = NoId \/ HasLayer(state.layers, state.activeLayerId)

\* The layers the action dispatched last put into the list.
InstalledLayers ==
    IF last.changed /\ last.act \in {"UNDO", "REDO", "LOAD_STATE"}
    THEN 1..Len(state.layers)
    ELSE IF last.changed /\ last.act = "PASTE_LAYER"
    THEN {IndexOfId(state.layers, state.activeLayerId)}
    ELSE {}

C10_DeleteLastLayerIsNoOp ==
    Len(state.layers) = 1 =>
        \A id \in {NoId, state.activeLayerId, state.layers[1].id} :
            DELETE_LAYER(state, id) = state

\* A deletion has left exactly one layer in the list.
C10_Witness ==
    /\ last.act = "DELETE_LAYER" /\ last.changed
    /\ Len(state.layers) = 1

\* C11 as claimed: with exactly one layer in the list CUT_LAYER leaves layers,
\* activeLayerId, history, historyIndex and clipboard as they were.
C11_CutLastLayerChangesNothing ==
    Len(state.layers) = 1 =>
        /\ CUT_LAYER(state).layers = state.layers
        /\ CUT_LAYER(state).activeLayerId = state.activeLayerId
        /\ CUT_LAYER(state).history = state.history
        /\ CUT_LAYER(state).historyIndex = state.historyIndex
        /\ CUT_LAYER(state).clipboard = state.clipboard

\* C11 amended: with exactly one layer in the list CUT_LAYER leaves layers,
\* activeLayerId, history, historyIndex and every other field but the
\* clipboard as they were; the clipboard receives the copy of the active
\* layer under its own name.
C11_CutLastLayerOnlyCopies ==
    Len(state.layers) = 1 =>
        /\ CUT_LAYER(state) = [state EXCEPT !.clipboard = CUT_LAYER(state).clipboard]
        /\ activeLayerCache(state) # None =>
                CUT_LAYER(state).clipboard =
                    Some(ClipboardOf(activeLayerCache(state)[1], activeLayerCache(state)[1].name))

\* Ctrl/Cmd+X has been pressed on a project whose single layer was never
\* joined by another: the layer is on the clipboard and still in the list.
C11_Witness ==
    /\ last.act = "CUT_LAYER" /\ last.changed
    /\ Len(state.layers) = 1 /\ Len(state.history) = 1
    /\ state.clipboard # None

\* The active layer's buffer of an AppState (None while it is not hydrated).
ActiveBuffer(s) == IF FindActive(s) = None THEN None ELSE FindActive(s)[1].offscreenCanvas

\* Positions a floating selection is dragged over, the canvas and one pixel
\* around it.
DragPositions(s) ==
    {[x |-> x, y |-> y] : x \in (-1)..s.canvasWidth, y \in (-1)..s.canvasHeight}

\* C12: with a selection rectangle set and the active layer hydrated,
\* LIFT_SELECTION(clearOriginal = true), any two MOVE_FLOATING_SELECTION the
\* last of which returns to the original position (or no move at all) and
\* STAMP_FLOATING_SELECTION leave the active layer's buffer as it was before
\* the lift.
C12_LiftMoveStampRestoresBuffer ==
    (state.selection # None /\ ActiveBuffer(state) # None) =>
        LET lifted == LIFT_SELECTION(state, TRUE)
            home == lifted.floatingSelection[1].initialPosition
        IN  /\ lifted.floatingSelection # None
            /\ ActiveBuffer(STAMP_FLOATING_SELECTION(lifted)) = ActiveBuffer(state)
            /\ \A p \in DragPositions(state), q \in DragPositions(state) :
                   ActiveBuffer(STAMP_FLOATING_SELECTION(
                       MOVE_FLOATING_SELECTION(
                           MOVE_FLOATING_SELECTION(MOVE_FLOATING_SELECTION(lifted, p), q),
                           home))) = ActiveBuffer(state)

\* A floating selection has just been stamped: the snapshot taken by the
\* stamp shows a buffer other than the present one, and the snapshot before
\* it, taken by the lift, shows the present buffer, which has a painted pixel.
C12_Witness ==
    /\ last.act = "STAMP_FLOATING_SELECTION" /\ last.changed
    /\ Len(state.history) >= 3 /\ state.historyIndex = Len(state.history) - 1
    /\ ActiveBuffer(state) # None
    /\ \E x \in 1..state.canvasWidth : ActiveBuffer(state)[1][1][x] = Black
    /\ state.history[Len(state.history)][1].dataURL # Some(toDataURL(ActiveBuffer(state)[1]))
    /\ state.history[Len(state.history) - 1][1].dataURL = Some(toDataURL(ActiveBuffer(state)[1]))

\* C13: LIFT_SELECTION(clearOriginal = false) leaves every field of the
\* AppState but selection and floatingSelection as it was (no pixel of any
\* layer, no history entry); with a selection set and the active layer
\* hydrated it clears the selection and the floating selection holds the
\* pixels of the rectangle at the rectangle's position.
C13_LiftCopyLeavesBuffers ==
    LET lifted == LIFT_SELECTION(state, FALSE)
    IN  /\ lifted = [state EXCEPT !.selection = lifted.selection,
                                  !.floatingSelection = lifted.floatingSelection]
        /\ (state.selection # None /\ ActiveBuffer(state) # None) =>
               /\ lifted.selection = None
               /\ lifted.floatingSelection # None
               /\ lifted.floatingSelection[1].x = state.selection[1].x
               /\ lifted.floatingSelection[1].y = state.selection[1].y
               /\ lifted.floatingSelection[1].imageData =
                      getImageDataRect(ActiveBuffer(state)[1], state.selection[1].x,
                                       state.selection[1].y, state.selection[1].width,
                                       state.selection[1].height)

\* A lift has just copied a painted pixel: the floating selection holds it
\* and the buffer still shows it at the place it was lifted from.
C13_Witness ==
    /\ last.act = "LIFT_SELECTION" /\ last.changed
    /\ state.floatingSelection # None /\ state.selection = None
    /\ ActiveBuffer(state) # None
    /\ LET f == state.floatingSelection[1]
       IN  /\ \E x \in 1..CanvasW(f.imageData) : f.imageData[1][x] = Black
           /\ getImageDataRect(ActiveBuffer(state)[1], f.initialPosition.x, f.initialPosition.y,
                               CanvasW(f.imageData), CanvasH(f.imageData)) = f.imageData

\* The pixels of a canvas, as 0-based << x, y >>.
Cells(canvas) == (0..(CanvasW(canvas) - 1)) \X (0..(CanvasH(canvas) - 1))
Adjacent(p, q) == Abs(p[1] - q[1]) + Abs(p[2] - q[2]) = 1

\* The pixels 4-connected to region through pixels whose four channels are rgba.
RECURSIVE ConnectedRegion(_, _, _)
ConnectedRegion(canvas, region, rgba) ==
    LET grown == region \cup
            {q \in Cells(canvas) :
                /\ RgbaPixel(canvas[q[2] + 1][q[1] + 1]) = rgba
                /\ \E p \in region : Adjacent(p, q)}
    IN  IF grown = region THEN region ELSE ConnectedRegion(canvas, grown, rgba)

\* The fill of the seed pixel's region of a canvas with a colour.
FilledRegion(canvas, seed, color) ==
    LET region == ConnectedRegion(canvas, {seed}, RgbaPixel(canvas[seed[2] + 1][seed[1] + 1]))
    IN  [y \in 1..CanvasH(canvas) |-> [x \in 1..CanvasW(canvas) |->
            IF <<x - 1, y - 1>> \in region THEN color ELSE canvas[y][x]]]

\* C14: on the hydrated active layer, for every seed pixel and every fill
\* colour whose four channels differ from the seed's, floodFill completes and
\* the buffer it puts back has the fill colour on exactly the pixels that are
\* 4-connected to the seed through pixels of the seed's RGBA value, every
\* other pixel as before; and filling a transparent 4x4 layer at (2,2) with
\* opaque red makes all 16 pixels opaque red.
C14_FillExactlyConnectedRegion ==
    /\ ActiveBuffer(state) # None =>
          \A seed \in Cells(ActiveBuffer(state)[1]), color \in FillColors :
              LET canvas == ActiveBuffer(state)[1]
                  fill == floodFill([state EXCEPT !.primaryColor = color], seed[1], seed[2])
              IN  RgbaPixel(color) # RgbaPixel(canvas[seed[2] + 1][seed[1] + 1]) =>
                      /\ fill.committed
                      /\ fill.canvas = Some(FilledRegion(canvas, seed, color))
    /\ floodFill([INIT_PROJECT(4, 4, 1, <<1>>) EXCEPT !.primaryColor = Red], 2, 2) =
           [committed |-> TRUE, canvas |-> Some([y \in 1..4 |-> [x \in 1..4 |-> Red]])]

\* The fill tool has just committed a fill with '#ff0000fe' that stopped at
\* an opaque red pixel next to the filled region.
C14_Witness ==
    /\ last.act = "UPDATE_LAYER_CANVAS" /\ last.changed
    /\ state.selectedTool = "fill" /\ state.primaryColor = RedA254
    /\ ActiveBuffer(state) # None
    /\ \E p \in Cells(ActiveBuffer(state)[1]), q \in Cells(ActiveBuffer(state)[1]) :
           /\ Adjacent(p, q)
           /\ ActiveBuffer(state)[1][p[2] + 1][p[1] + 1] = RedA254
           /\ ActiveBuffer(state)[1][q[2] + 1][q[1] + 1] = Red

\* The AppState after handlePointerDown with the fill tool at (x, y).
FillPress(s, x, y) ==
    LET fill == floodFill(s, x, y)
    IN  IF fill.committed
        THEN UPDATE_LAYER_CANVAS(DrawInPlace(s, fill.canvas[1]), activeLayerCache(s)[1].id,
                                 fill.canvas[1], toDataURL(fill.canvas[1]))
        ELSE s

RECURSIVE StampAll(_, _, _, _, _)
StampAll(canvas, centres, color, erase, brushSize) ==
    IF Len(centres) = 0 THEN canvas
    ELSE StampAll(IF erase THEN clearPixel(canvas, centres[1][1], centres[1][2], brushSize)
                  ELSE drawPixel(canvas, centres[1][1], centres[1][2], color, brushSize),
                  Tail(centres), color, erase, brushSize)

\* C17: during a stroke, the line from the last point to any endpoint up to
\* LineReach pixels outside the canvas is stamped at max(|dx|, |dy|) + 1
\* centres, the first the start and the last the end, consecutive centres
\* one step or less apart in x and in y, with the pencil and with the
\* eraser at the brush size in use; and the size-1 pencil line (0,0)-(7,7) on
\* a blank 8x8 canvas paints the eight pixels of the main diagonal only.
C17_LineHasNoGap ==
    /\ (lastPoint # None /\ ActiveBuffer(state) # None) =>
          \A x1 \in (-LineReach)..(state.canvasWidth - 1 + LineReach),
             y1 \in (-LineReach)..(state.canvasHeight - 1 + LineReach) :
              LET x0 == lastPoint[1][1]
                  y0 == lastPoint[1][2]
                  centres == drawLineCentres(x0, y0, x1, y1)
                  n == Len(centres)
              IN  /\ centres[1] = <<x0, y0>> /\ centres[n] = <<x1, y1>>
                  /\ n = Max(Abs(x1 - x0), Abs(y1 - y0)) + 1
                  /\ \A i \in 1..(n - 1) :
                         /\ Abs(centres[i + 1][1] - centres[i][1]) <= 1
                         /\ Abs(centres[i + 1][2] - centres[i][2]) <= 1
                  /\ \A erase \in BOOLEAN :
                         drawLine(ActiveBuffer(state)[1], x0, y0, x1, y1, state.primaryColor,
                                  erase, state.brushSize)
                           = StampAll(ActiveBuffer(state)[1], centres, state.primaryColor,
                                      erase, state.brushSize)
    /\ drawLine(createOffscreenCanvas(8, 8), 0, 0, 7, 7, Black, FALSE, 1) =
           [y \in 1..8 |-> [x \in 1..8 |-> IF x = y THEN Black ELSE Transparent]]

\* The size-1 pencil has been pressed at (0,0) and dragged to (2,1): the
\* buffer shows the three pixels of that line.
C17_Witness ==
    /\ isDrawing /\ lastPoint = Some(<<2, 1>>) /\ state.brushSize = 1
    /\ ActiveBuffer(state) =
           Some(drawLine(createOffscreenCanvas(3, 2), 0, 0, 2, 1, Black, FALSE, 1))
    /\ Cardinality({c \in Cells(ActiveBuffer(state)[1]) :
                       ActiveBuffer(state)[1][c[2] + 1][c[1] + 1] = Black}) = 3

\* The active layer of s2 has the buffer and the rotation it has in s.
SameBufferAndRotation(s, s2) ==
    /\ ActiveBuffer(s2) = ActiveBuffer(s)
    /\ FindActive(s2)[1].rotation = FindActive(s)[1].rotation

\* C18: with the active layer hydrated, ROTATE_LEFT then ROTATE_RIGHT,
\* ROTATE_RIGHT then ROTATE_LEFT, four ROTATE_LEFT and four ROTATE_RIGHT each
\* give the active layer the buffer and the rotation it had.
C18_RotationsRestoreBuffer ==
    ActiveBuffer(state) # None =>
        \A t1 \in {0, 1}, t2 \in {0, 1}, t3 \in {0, 1}, t4 \in {0, 1} :
            /\ SameBufferAndRotation(state, ROTATE_RIGHT(ROTATE_LEFT(state, t1), t2))
            /\ SameBufferAndRotation(state, ROTATE_LEFT(ROTATE_RIGHT(state, t1), t2))
            /\ SameBufferAndRotation(state,
                   ROTATE_LEFT(ROTATE_LEFT(ROTATE_LEFT(ROTATE_LEFT(state, t1), t2), t3), t4))
            /\ SameBufferAndRotation(state,
                   ROTATE_RIGHT(ROTATE_RIGHT(ROTATE_RIGHT(ROTATE_RIGHT(state, t1), t2), t3), t4))
\* The buffer pixel the flat composite shows at a device position: every
\* layer buffer is drawn as it is, scaled by the zoom.
DisplayedPixel(zoomLevel, canvasX, canvasY) ==
    <<canvasX \div zoomLevel, canvasY \div zoomLevel>>

\* C19: whatever the rotation of the active layer, every pointer position
\* over the displayed canvas resolves to the buffer pixel the flat composite
\* shows under it, and a size-1 pencil press there paints that pixel.
C19_PressHitsDisplayedPixel ==
    (state.isInitialized /\ ActiveBuffer(state) # None) =>
        \A zoomLevel \in ZoomLevels :
            \A canvasX \in DisplayedX(state, zoomLevel), canvasY \in DisplayedY(state, zoomLevel) :
                \A short \in Shortfalls :
                    LET under == DisplayedPixel(zoomLevel, canvasX, canvasY)
                        coords == getLogicalCoords(state, zoomLevel, canvasX, canvasY, short)
                    IN  /\ coords = Some(under)
                        /\ drawPixel(ActiveBuffer(state)[1], coords[1][1], coords[1][2], Black, 1) =
                               [ActiveBuffer(state)[1] EXCEPT ![under[2] + 1][under[1] + 1] = Black]

\* The logical coordinates lie outside [0,width) x [0,height).
OutsideCanvas(s, logical) ==
    \/ logical[1] < 0 \/ logical[1] >= s.canvasWidth
    \/ logical[2] < 0 \/ logical[2] >= s.canvasHeight

\* The step changes a layer buffer, the history or the stroke in progress.
PressHasEffect ==
    \/ state' # state
    \/ isDrawing' # isDrawing
    \/ lastPoint' # lastPoint

\* C20: a pointer position whose floored logical coordinates lie outside the
\* canvas resolves to no coordinates at all, never to a clamped pixel, and a
\* pointer-down there, whatever the tool, has no step that changes the
\* layers, the history or the stroke in progress.
C20_OutsideIsNullAndIgnored ==
    state.isInitialized =>
        \A zoomLevel \in ZoomLevels :
            \A canvasX \in DisplayedX(state, zoomLevel), canvasY \in DisplayedY(state, zoomLevel) :
                \A short \in Shortfalls :
                    OutsideCanvas(state, FlooredLogical(state, zoomLevel, canvasX, canvasY, short)) =>
                        /\ getLogicalCoords(state, zoomLevel, canvasX, canvasY, short) = None
                        /\ ~ENABLED (/\ PointerDownAt(getLogicalCoords(state, zoomLevel,
                                                                       canvasX, canvasY, short))
                                     /\ PressHasEffect)

\* A stroke has been committed and the layer rotated by 180 degrees; with the
\* pencil selected, the pointer over the top-left device pixel resolves
\* outside the canvas, to (2,2).
C20_Witness ==
    /\ state.isInitialized /\ ~isDrawing /\ state.selectedTool = "pencil"
    /\ Len(state.history) = 3
    /\ FindActive(state) # None /\ FindActive(state)[1].rotation = 180
    /\ FlooredLogical(state, 1, 0, 0, <<0, 0>>) = <<2, 2>>
    /\ getLogicalCoords(state, 1, 0, 0, <<0, 0>>) = None
\* The step ends a stroke in progress.
StrokeEnds == isDrawing /\ ~isDrawing'

\* The step commits the stroke: UPDATE_LAYER_CANVAS for the layer drawn on,
\* with its canvas, appends one snapshot at which the cursor then stands.
StrokeCommitted ==
    /\ activeLayerCache(state) # None /\ activeCtxCache(state) # None
    /\ state' = UPDATE_LAYER_CANVAS(state, activeLayerCache(state)[1].id, activeCtxCache(state)[1],
                                    toDataURL(activeCtxCache(state)[1]))
    /\ state'.history # state.history
    /\ state'.historyIndex = Len(state'.history) - 1
    /\ last'.act = "UPDATE_LAYER_CANVAS"

\* C21: a stroke in progress ends only by the step of a pointer-up, a
\* pointer-leave or a move outside the canvas, and that step commits it:
\* one UPDATE_LAYER_CANVAS, one history entry, whatever was dispatched since
\* the pointer-down.
C21_StrokeEndsCommitted ==
    [][StrokeEnds => (StrokeCommitted /\ lastPoint' = None)]_vars
\* The active layer of s is in the list and has no canvas yet.
AwaitingHydration(s) == FindActive(s) # None /\ FindActive(s)[1].offscreenCanvas = None

\* The step changes the AppState or a canvas being decoded, or lets an error
\* escape.
CommandHasEffect ==
    \/ state' # state
    \/ pending' # pending
    \/ crashed'

\* C22: while the active layer has no canvas, with the pencil, the eraser or
\* the fill tool selected, no pointer-down, pointer-move or pointer-up has a
\* step that changes a layer, a canvas being decoded or the history, or that
\* throws: the command is rejected.
C22_UnhydratedLayerRejectsDrawing ==
    (AwaitingHydration(state) /\ state.selectedTool \in {"pencil", "eraser", "fill"}) =>
        /\ ~ENABLED (DoPointerDown /\ (CommandHasEffect \/ isDrawing' # isDrawing))
        /\ ~ENABLED (DoPointerMove /\ CommandHasEffect)
        /\ ~ENABLED (DoPointerUp /\ CommandHasEffect)
        /\ \A x \in 0..(state.canvasWidth - 1), y \in 0..(state.canvasHeight - 1) :
               ~floodFill(state, x, y).committed

\* UNDO has just left the active layer without a canvas, its decode is in
\* flight and the fill tool is selected.
C22_Witness ==
    /\ AwaitingHydration(state) /\ pending # EmptyBag
    /\ last.act = "UNDO" /\ last.changed
    /\ state.selectedTool = "fill"
\* s2 differs from s at most in the canvas of the layers that have the id
\* and no canvas in s.
InstallsOnlyMissingCanvas(s, s2, layerId) ==
    /\ Len(s2.layers) = Len(s.layers)
    /\ \A i \in 1..Len(s.layers) :
           IF s.layers[i].id = layerId /\ s.layers[i].offscreenCanvas = None
           THEN s2.layers[i] = [s.layers[i] EXCEPT !.offscreenCanvas = s2.layers[i].offscreenCanvas]
           ELSE s2.layers[i] = s.layers[i]
    /\ [s2 EXCEPT !.layers = s.layers] = s

\* C23: whichever decode in flight completes next, its canvas goes to the
\* layer of that id only if that layer has no canvas; a canvas already
\* present, drawn on or mid-stroke stays, and every other layer, the
\* history, the cursor, the active layer and the selection are unchanged.
C23_HydrationInstallsWithoutDisturbing ==
    \A e \in BagToSet(pending) :
        InstallsOnlyMissingCanvas(
            state, INTERNAL_UPDATE_LAYER_OFFSCREEN_CANVAS(state, e.layerId, e.canvas), e.layerId)
\* The data-model invariants of a state: activeLayerId is null or the id of
\* a layer, and the cursor lies within a non-empty history.
DataModelInvariants(s) ==
    /\ s.activeLayerId = NoId \/ HasLayer(s.layers, s.activeLayerId)
    /\ Len(s.history) > 0 => (0 <= s.historyIndex /\ s.historyIndex < Len(s.history))

\* C24: LOAD_STATE of the project file of any reachable state, with any
\* subset of its fields missing, gives a state in which every missing field
\* has its default or empty value and the data-model invariants hold.
C24_LoadWithMissingFieldsKeepsInvariants ==
    state.isInitialized =>
        \A missing \in SUBSET ProjectFileFields :
            LET loaded == LOAD_STATE(WithoutFields(handleSaveProject(state), missing))
            IN  /\ DataModelInvariants(loaded)
                /\ "layers" \in missing => loaded.layers = <<>>
                /\ "canvasWidth" \in missing => loaded.canvasWidth = initialAppState.canvasWidth
                /\ "canvasHeight" \in missing => loaded.canvasHeight = initialAppState.canvasHeight
                /\ "clipboard" \in missing => loaded.clipboard = None
                /\ "selectedTool" \in missing => loaded.selectedTool = initialAppState.selectedTool
                /\ "primaryColor" \in missing => loaded.primaryColor = initialAppState.primaryColor
                /\ "brushSize" \in missing => loaded.brushSize = initialAppState.brushSize
\* loaded is the project of s: canvas size, layers in order with their
\* fields and encoded pixels, activeLayerId, history, cursor and clipboard,
\* and no layer of loaded has a canvas.
EquivalentProject(s, loaded) ==
    /\ loaded.isInitialized
    /\ loaded.canvasWidth = s.canvasWidth /\ loaded.canvasHeight = s.canvasHeight
    /\ Len(loaded.layers) = Len(s.layers)
    /\ \A i \in 1..Len(s.layers) :
           /\ loaded.layers[i].offscreenCanvas = None
           /\ LayerData(loaded.layers[i], loaded.layers[i].dataURL) =
                  serializeLayersForHistory(s.layers)[i]
    /\ loaded.activeLayerId = s.activeLayerId
    /\ loaded.history = s.history
    /\ loaded.historyIndex = s.historyIndex
    /\ loaded.clipboard = s.clipboard

\* C25: the project file and the localStorage entry of any reachable
\* project, loaded with LOAD_STATE, give an equivalent project whose layers
\* all await hydration.
C25_SaveLoadRoundTrip ==
    state.isInitialized =>
        /\ EquivalentProject(state, LOAD_STATE(handleSaveProject(state)))
        /\ EquivalentProject(state, LOAD_STATE(debouncedSaveState(state)))
\* s2 is s with at most another activeLayerId.
OnlyActiveIdChanged(s, s2) == [s2 EXCEPT !.activeLayerId = s.activeLayerId] = s

\* C26: SELECT_LAYER of any layer, in the current state and after a layer
\* has been added to it, sets activeLayerId and leaves layers, buffers,
\* history, cursor, clipboard, selection and floatingSelection as they were.
C26_SelectLayerChangesOnlyActiveId ==
    state.isInitialized =>
        \A s \in {state, ADD_LAYER(state, uuidv4(1)[1])} :
            \A i \in 1..Len(s.layers) :
                /\ SELECT_LAYER(s, s.layers[i].id).activeLayerId = s.layers[i].id
                /\ OnlyActiveIdChanged(s, SELECT_LAYER(s, s.layers[i].id))
\* C27: a decode that fails changes nothing in the AppState and lets no
\* error escape: the layer keeps its null canvas and its dataURL; right
\* after a failure every decode still in flight installs its canvas, every
\* layer that has a canvas can be selected and drawn on, and UNDO and REDO
\* move the cursor as before.
C27_DecodeFailureChangesNothing ==
    /\ \A e \in BagToSet(pending) : onerror(state, e.layerId) = state
    /\ last.act = "img.onerror" =>
           /\ ~last.changed /\ ~crashed
           /\ \A e \in BagToSet(pending) : \A i \in 1..Len(state.layers) :
                  state.layers[i].id = e.layerId =>
                      INTERNAL_UPDATE_LAYER_OFFSCREEN_CANVAS(state, e.layerId, e.canvas)
                          .layers[i].offscreenCanvas = Some(e.canvas)
           /\ \A i \in 1..Len(state.layers) :
                  (state.layers[i].offscreenCanvas # None /\ ~state.layers[i].isLocked) =>
                      activeCtxCache(SELECT_LAYER(state, state.layers[i].id)) =
                          state.layers[i].offscreenCanvas
           /\ canUndo(state) =>
                  (~UndoThrows(state) /\ UNDO(state).historyIndex = state.historyIndex - 1)
           /\ canRedo(state) => REDO(state).historyIndex = state.historyIndex + 1

\* A decode has just failed: its layer has no canvas and no decode in
\* flight, next to a layer that has its canvas.
C27_Witness ==
    /\ last.act = "img.onerror"
    /\ \E i \in 1..Len(state.layers) :
           /\ state.layers[i].offscreenCanvas = None /\ state.layers[i].dataURL # None
           /\ \A e \in BagToSet(pending) : e.layerId # state.layers[i].id
    /\ \E j \in 1..Len(state.layers) : state.layers[j].offscreenCanvas # None
\* The states one undoable action other than drawing leads to from the
\* current state: add, delete, reorder, cut, paste, rotate, lift with
\* clearOriginal = true, stamp.
AfterLayerAction ==
    {ADD_LAYER(state, uuidv4(1)[1]),
     DELETE_LAYER(state, state.activeLayerId),
     CUT_LAYER(state),
     PASTE_LAYER(state, uuidv4(1)[1]),
     LIFT_SELECTION(state, TRUE),
     STAMP_FLOATING_SELECTION(state)}
    \cup {REORDER_LAYERS(state, D, N) :
             D \in 0..(Len(state.layers) - 1), N \in 0..(Len(state.layers) - 1)}
    \cup (IF canRotate(state) /\ activeLayerCache(state) # None
          THEN {ROTATE_LEFT(state, 0), ROTATE_RIGHT(state, 0)} ELSE {})

\* The states the commit of one pencil or eraser stamp, or one press of the
\* fill tool, leads to from the current state.
AfterDrawAction ==
    {UPDATE_LAYER_CANVAS(DrawInPlace(state, canvas), state.activeLayerId, canvas,
                         toDataURL(canvas)) : canvas \in StrokesOf(state)}
    \cup {FillPress(state, x, y) :
             x \in 0..(state.canvasWidth - 1), y \in 0..(state.canvasHeight - 1)}

\* s2 has the history of the current state up to the cursor, then one more
\* snapshot, which is the serialized layer stack of the current state.
AppendsPreActionSnapshot(s2) ==
    s2.history # state.history =>
        s2.history[s2.historyIndex + 1] = serializeLayersForHistory(state.layers)

\* C28: in every reachable state, the snapshot that a stroke commit, fill,
\* add, delete, reorder, cut, paste, rotate, lift with clearOriginal = true
\* or stamp appends to the history is the serialized layer stack of before
\* the action changed any pixel or layer.
C28_SnapshotIsPreActionStack ==
    (state.isInitialized /\ ~crashed) =>
        \A s2 \in AfterLayerAction \cup AfterDrawAction : AppendsPreActionSnapshot(s2)
\* The last n entries of seq, all of it when it has no more than n.
LastEntries(seq, n) ==
    IF Len(seq) <= n THEN seq ELSE SubSeq(seq, Len(seq) - n + 1, Len(seq))

\* history[0..historyIndex] of s followed by snapshot, reduced to its last
\* MAX_HISTORY_SIZE entries.
PushedHistory(s, snapshot) ==
    LET upToCursor == IF s.historyIndex + 1 >= Len(s.history) THEN s.history
                      ELSE SubSeq(s.history, 1, Max(0, s.historyIndex + 1))
    IN  LastEntries(Append(upToCursor, snapshot), MAX_HISTORY_SIZE)

\* C29: in every reachable state, pushing a snapshot (the serialized layers,
\* or a copy of any history entry) gives the history up to the cursor
\* followed by the snapshot, in the same order, cut to its last
\* MAX_HISTORY_SIZE entries, and a cursor at the last index, where the
\* pushed snapshot is.
C29_PushTruncatesAppendsEvicts ==
    \A snapshot \in {serializeLayersForHistory(state.layers)}
                      \cup {state.history[k] : k \in 1..Len(state.history)} :
        LET pushed == pushToHistory(state, snapshot)
        IN  /\ pushed.history = PushedHistory(state, snapshot)
            /\ pushed.historyIndex = Len(pushed.history) - 1
            /\ pushed.history[pushed.historyIndex + 1] = snapshot
\* The layers that UNDO and REDO make of the snapshot at the 0-based index
\* cursor of the history of s.
InstalledSnapshot(s, cursor) == MapSeq(s.history[cursor + 1], RestoredLayer)

\* C30: in every reachable state, UNDO and REDO leave the history list as
\* it is; UNDO with the cursor at 0 or below and REDO with the cursor at the
\* last index return the state unchanged; in every other state UNDO moves
\* the cursor one down and REDO one up, and the layers become the snapshot
\* at the new cursor.
C30_UndoRedoMoveCursorOnly ==
    (state.isInitialized /\ ~crashed) =>
        /\ ~UndoThrows(state)
        /\ UNDO(state).history = state.history
        /\ REDO(state).history = state.history
        /\ IF state.historyIndex <= 0 THEN UNDO(state) = state
           ELSE /\ UNDO(state).historyIndex = state.historyIndex - 1
                /\ UNDO(state).layers = InstalledSnapshot(state, state.historyIndex - 1)
        /\ IF state.historyIndex = Len(state.history) - 1 THEN REDO(state) = state
           ELSE /\ REDO(state).historyIndex = state.historyIndex + 1
                /\ state.historyIndex + 2 \in DOMAIN state.history
                /\ REDO(state).layers = InstalledSnapshot(state, state.historyIndex + 1)

\* The active layer of s2 is the one of the current state when the layers
\* of s2 hold it, and the first layer of s2 otherwise; it is null when s2 has
\* no layer at all.
ActiveKeptOrFirst(s2) ==
    IF HasLayer(s2.layers, state.activeLayerId)
    THEN s2.activeLayerId = state.activeLayerId
    ELSE IF Len(s2.layers) >= 1 THEN s2.activeLayerId = s2.layers[1].id
    ELSE s2.activeLayerId = NoId

\* C31: in every reachable state, an UNDO or REDO that moves the cursor
\* keeps activeLayerId when the restored layers hold a layer of that id, and
\* otherwise makes the first restored layer (index 0) the active one.
C31_UndoRedoKeepActiveOrFirst ==
    (state.isInitialized /\ ~crashed /\ ~UndoThrows(state)) =>
        \A s2 \in {UNDO(state), REDO(state)} :
            s2.historyIndex # state.historyIndex => ActiveKeptOrFirst(s2)

\* UNDO restores a list of layers that lacks the active layer, and makes
\* the first restored layer the active one.
C31_Witness ==
    /\ canUndo(state) /\ ~UndoThrows(state)
    /\ state.activeLayerId # NoId
    /\ ~HasLayer(UNDO(state).layers, state.activeLayerId)
    /\ Len(UNDO(state).layers) >= 1
    /\ UNDO(state).activeLayerId = UNDO(state).layers[1].id

\* The current state and the state one ADD_LAYER later, each with any of its
\* layers selected.
WithAnyLayerActive ==
    IF ~state.isInitialized \/ crashed THEN {}
    ELSE UNION {{SELECT_LAYER(base, base.layers[i].id) : i \in 1..Len(base.layers)} :
                   base \in {state, ADD_LAYER(state, uuidv4(1)[1])}}

\* DELETE_LAYER(s, id) takes the layer at the 1-based index d out of the list
\* and nothing else; the active layer, when it was the one deleted, becomes
\* the layer that stood before it, or the new first layer when it stood first.
DeletesExactly(s, d) ==
    LET id == s.layers[d].id
        s2 == DELETE_LAYER(s, id)
    IN  /\ s2.layers = SubSeq(s.layers, 1, d - 1) \o SubSeq(s.layers, d + 1, Len(s.layers))
        /\ IF s.activeLayerId = id
           THEN s2.activeLayerId = (IF d = 1 THEN s2.layers[1].id ELSE s.layers[d - 1].id)
           ELSE s2.activeLayerId = s.activeLayerId

\* C32: in every reachable state with more than one layer, and one
\* ADD_LAYER later, with any layer active, DELETE_LAYER of any layer removes
\* exactly that layer, keeps the others in order, moves the active layer to
\* the previous neighbour (or to index 0) when the active layer was deleted,
\* and leaves it alone otherwise.
C32_DeleteRemovesOneAndReselects ==
    \A s \in WithAnyLayerActive :
        Len(s.layers) > 1 => \A d \in 1..Len(s.layers) : DeletesExactly(s, d)

\* A deletion of the active layer of a two-layer list has just happened, and
\* one ADD_LAYER later the list has more than one layer again.
C32_Witness ==
    /\ last.act = "DELETE_LAYER" /\ last.changed
    /\ HasLayer(state.layers, state.activeLayerId)
    /\ Len(ADD_LAYER(state, uuidv4(1)[1]).layers) > 1

\* The current state and the state one ADD_LAYER later.
WithOneMoreLayer ==
    IF ~state.isInitialized \/ crashed THEN {}
    ELSE {state, ADD_LAYER(state, uuidv4(1)[1])}

\* REORDER_LAYERS(s, D, N) puts the layer of index D at index N, keeps the
\* other layers in the order they had, and keeps the list's length and the
\* active layer.
MovesOneLayer(s, D, N) ==
    LET s2 == REORDER_LAYERS(s, D, N)
        moved == s.layers[D + 1]
    IN  /\ Len(s2.layers) = Len(s.layers)
        /\ s2.layers[N + 1] = moved
        /\ FilterOutId(s2.layers, moved.id) = FilterOutId(s.layers, moved.id)
        /\ Len(FilterOutId(s2.layers, moved.id)) = Len(s.layers) - 1
        /\ s2.activeLayerId = s.activeLayerId

\* C33: in every reachable state, and one ADD_LAYER later,
\* REORDER_LAYERS for any two indices of the list gives the same
\* layers with the one of sourceIndex at destinationIndex and the others in
\* their former order, and the same activeLayerId.
C33_ReorderMovesOneLayer ==
    \A s \in WithOneMoreLayer :
        \A D \in 0..(Len(s.layers) - 1), N \in 0..(Len(s.layers) - 1) : MovesOneLayer(s, D, N)

\* A drag has just reordered a list of at least two layers.
C33_Witness ==
    /\ last.act = "REORDER_LAYERS" /\ last.changed
    /\ Len(state.layers) >= 2
    /\ HasLayer(state.layers, state.activeLayerId)

\* STAMP_FLOATING_SELECTION(s) appends one snapshot, the serialized layers of
\* s, right after the cursor; every pixel of the active buffer under the
\* floating rectangle takes the floating pixel, transparent or not, every
\* other pixel stays, and the floating selection is gone.
StampsFloating(s) ==
    /\ ActiveBuffer(s) # None
    /\ LET s2 == STAMP_FLOATING_SELECTION(s)
           floating == s.floatingSelection[1]
           before == ActiveBuffer(s)[1]
       IN  /\ s2.historyIndex = s.historyIndex + 1
           /\ s2.history = Append(SubSeq(s.history, 1, s.historyIndex + 1),
                                  serializeLayersForHistory(s.layers))
           /\ ActiveBuffer(s2) # None
           /\ CanvasW(ActiveBuffer(s2)[1]) = CanvasW(before)
           /\ CanvasH(ActiveBuffer(s2)[1]) = CanvasH(before)
           /\ \A j \in 1..CanvasH(before), i \in 1..CanvasW(before) :
                  ActiveBuffer(s2)[1][j][i] =
                      IF /\ i - 1 >= floating.x
                         /\ i - 1 < floating.x + CanvasW(floating.imageData)
                         /\ j - 1 >= floating.y
                         /\ j - 1 < floating.y + CanvasH(floating.imageData)
                      THEN floating.imageData[j - floating.y][i - floating.x]
                      ELSE before[j][i]
           /\ s2.floatingSelection = None

\* The current state and the state after Ctrl/Cmd+Z, when they hold a
\* floating selection, with that selection dragged to any position.
WithFloatingSelection ==
    IF ~state.isInitialized \/ crashed \/ UndoThrows(state) THEN {}
    ELSE UNION {{MOVE_FLOATING_SELECTION(base, p) : p \in DragPositions(base)} :
                   base \in {b \in {state, UNDO(state)} : b.floatingSelection # None}}

\* C34 as claimed: whenever a floating selection is present,
\* STAMP_FLOATING_SELECTION appends one snapshot taken before any pixel
\* changes, overwrites the pixels under the floating rectangle, leaves the
\* others and clears the floating selection.
C34_StampOverwritesAndClears ==
    \A s \in WithFloatingSelection : StampsFloating(s)

\* C34: whenever a floating selection is present and the active layer has
\* its buffer, STAMP_FLOATING_SELECTION appends one snapshot taken before
\* any pixel changes, overwrites the pixels under the floating rectangle,
\* leaves the others and clears the floating selection; while the active
\* layer has no buffer it returns the state it was given, floating
\* selection included.
C34_StampOnHydratedLayer ==
    \A s \in WithFloatingSelection :
        IF ActiveBuffer(s) # None THEN StampsFloating(s)
        ELSE STAMP_FLOATING_SELECTION(s) = s

\* A stamp has just written a floating selection that held a transparent
\* pixel and a painted one onto the active layer.
C34_Witness ==
    /\ last.act = "STAMP_FLOATING_SELECTION" /\ last.changed
    /\ state.floatingSelection = None
    /\ ActiveBuffer(state) # None
    /\ \E i \in 1..CanvasW(ActiveBuffer(state)[1]) : ActiveBuffer(state)[1][1][i] = Transparent
    /\ \E i \in 1..CanvasW(ActiveBuffer(state)[1]) : ActiveBuffer(state)[1][1][i] # Transparent

\* In s at most one of selection and floatingSelection is set.
NotBothSelections(s) == s.selection = None \/ s.floatingSelection = None

DrawableFromActive(s) ==
    {i \in (IndexOfId(s.layers, s.activeLayerId) - 1)..(Len(s.layers) - 1) :
        s.layers[i + 1].isVisible /\ s.layers[i + 1].offscreenCanvas # None}

\* C36: in every reachable state with an active layer and a canvas that has
\* an area, the flat composite draws each visible layer that has its canvas and stands at the active
\* index or after it exactly once, the higher index first, and nothing
\* else: no layer of a lower index than the active one; the active layer is
\* drawn at its own opacity and every other layer at opacity 1.
C36_FlatCompositeDrawsFromActiveDown ==
    (/\ state.isInitialized /\ HasLayer(state.layers, state.activeLayerId)
     /\ state.canvasWidth > 0 /\ state.canvasHeight > 0) =>
        LET draws == FlatComposite(state)
            activeIndex == IndexOfId(state.layers, state.activeLayerId) - 1
        IN  /\ {draws[k].index : k \in 1..Len(draws)} = DrawableFromActive(state)
            /\ Len(draws) = Cardinality(DrawableFromActive(state))
            /\ \A k \in 1..(Len(draws) - 1) : draws[k].index > draws[k + 1].index
            /\ \A k \in 1..Len(draws) :
                   /\ draws[k].index >= activeIndex
                   /\ draws[k].image = state.layers[draws[k].index + 1].offscreenCanvas[1]
                   /\ draws[k].globalAlpha =
                          IF draws[k].index = activeIndex
                          THEN state.layers[activeIndex + 1].opacity ELSE 1

\* The active layer is the first of two, at opacity 0, and the layer after
\* it, also set to opacity 0, is visible and has its canvas: both are drawn,
\* the second one opaque.
C36_Witness ==
    /\ last.act = "SET_LAYER_OPACITY" /\ last.changed
    /\ Len(state.layers) >= 2
    /\ state.activeLayerId = state.layers[1].id
    /\ state.layers[1].opacity = 0 /\ state.layers[2].opacity = 0
    /\ Len(FlatComposite(state)) = 2
    /\ FlatComposite(state)[1].globalAlpha = 1

\* The most entries a fill of a width x height canvas can take off its
\* queue: the seed, and four neighbours for every pixel it sets.
MostIterations(width, height) == 1 + 4 * width * height

\* C37: in every reachable state, for every seed on the canvas and every
\* fill colour, floodFill ends: its queue loop runs out of entries within
\* 1 + 4 x width x height iterations, without the queue guard tripping,
\* having set no pixel twice and no more pixels than the canvas has.
C37_FloodFillTerminates ==
    state.isInitialized =>
        \A x \in 0..(state.canvasWidth - 1), y \in 0..(state.canvasHeight - 1),
           color \in FillColors \cup {Black, state.primaryColor} :
            LET s == [state EXCEPT !.primaryColor = color]
                run == floodFillRun(s, x, y,
                                    MostIterations(state.canvasWidth, state.canvasHeight) + 1)
            IN  /\ run.ended = "done"
                /\ run.iterations <= MostIterations(state.canvasWidth, state.canvasHeight)
                /\ Len(run.writes) <= state.canvasWidth * state.canvasHeight
                /\ \A k \in 1..Len(run.writes), m \in 1..Len(run.writes) :
                       run.writes[k] = run.writes[m] => k = m
                /\ floodFill(s, x, y).committed <=> Len(run.writes) > 0

\* A fill has just recoloured the whole layer, and the next fill in another
\* colour sets every pixel of the canvas once.
C37_Witness ==
    /\ last.act = "UPDATE_LAYER_CANVAS" /\ last.changed
    /\ state.selectedTool = "fill"
    /\ \E color \in FillColors :
           Len(floodFillRun([state EXCEPT !.primaryColor = color], 0, 0,
                            MostIterations(state.canvasWidth, state.canvasHeight) + 1).writes)
               = state.canvasWidth * state.canvasHeight

\* The number of decodes in flight for the layer id.
DecodesInFlight(layerId) ==
    BagCardinality([e \in {d \in BagToSet(pending) : d.layerId = layerId} |-> pending[e]])

\* C38: in every reachable state at most one decode is in flight for each
\* layer id, and only for a layer that has no canvas yet, so that exactly
\* one completion installs a buffer each time a layer awaits hydration.
C38_OneDecodePerLayer ==
    \A e \in BagToSet(pending) :
        /\ DecodesInFlight(e.layerId) <= 1
        /\ \A i \in 1..Len(state.layers) :
               state.layers[i].id = e.layerId => state.layers[i].offscreenCanvas = None

\* A layer's encoded image encodes exactly the content of its buffer.
EncodesItsBuffer(layer) ==
    layer.offscreenCanvas = None
    \/ (layer.dataURL # None /\ layer.dataURL[1] = toDataURL(layer.offscreenCanvas[1]))

\* C39: in every reachable state with no stroke in progress, every layer that
\* has a pixel buffer has a dataURL that encodes exactly that buffer's
\* current content.
C39_DataURLEncodesBuffer ==
    ~isDrawing => \A i \in 1..Len(state.layers) : EncodesItsBuffer(state.layers[i])

\* The active layer is locked.
ActiveLocked(s) == activeLayerCache(s) # None /\ activeLayerCache(s)[1].isLocked

\* A step taken while the active layer is locked, before and after it.
StepWhileLocked ==
    /\ ActiveLocked(state) /\ ActiveLocked(state')
    /\ state'.activeLayerId = state.activeLayerId

\* The step leaves the pixels of the active layer's buffer as they are.
ActivePixelsKept == activeCtxCache(state') = activeCtxCache(state)

\* The step leaves the history and its cursor as they are.
HistoryKept ==
    state'.history = state.history /\ state'.historyIndex = state.historyIndex

AppendsOneEntry ==
    /\ Len(state'.history) = Len(state.history) + 1
    /\ SubSeq(state'.history, 1, Len(state.history)) = state.history
    /\ state'.historyIndex = state.historyIndex + 1

====
